---- MODULE Spec2Model ----
(***************************************************************************)
(* Model of the real-time call bridge (src/unnamed/part_000): one call     *)
(* session, its transport events, the streaming and batch recognizers,     *)
(* and the reply pipeline handleFinalTranscript (generate, synthesize,     *)
(* play).  Every action is one handler, or one continuation of an async    *)
(* handler between two awaits: JavaScript runs each of them to its next    *)
(* await without interleaving.                                             *)
(***************************************************************************)
EXTENDS Integers, Sequences, FiniteSets, TLC

\* ------------------------------------------------------------------ bounds
\* Media events the transport delivers in one call.
MaxFrames == 2
\* Caller utterances the streaming recognizer reports (each may be reported
\* by a final transcript and by a speech_end signal).
MaxUtterances == 1
\* Idle clock advances (Tick) end no later than this instant, in ms.
MaxClock == 540
\* Characters in the text the generator's API returns.
MaxReplyChars == 3
\* The latest send of the pacer, by number, that may throw.
MaxFailAt == 2

\* ------------------------------------------------------- program constants
TWILIO_SAMPLE_RATE == 8000
TTS_SAMPLE_RATE == 16000
\* CHUNK_SECONDS = 0.9, kept in tenths of a second.
CHUNK_SECONDS_TENTHS == 9
\* The safety margin added to the estimated playback duration.
SAFETY_MARGIN_MS == 350
\* sleep(20) after every outbound frame.
FRAME_SLEEP_MS == 20
\* chunkBytes: mu-law bytes per outbound frame.
chunkBytes == 160

\* ------------------------------------------------------------------ inputs
NULL == "null"
\* start.callSid as the transport reports it.
CallSids == {"CA1"}
\* start.media.sample_rate after parseInt(..) || TWILIO_SAMPLE_RATE.
StartSampleRates == {8000, 16000}
\* Length in bytes of the mu-law payload of a media event; 0 is a media
\* event without payload.
PayloadSizes == {0, 160, 7200}
\* What the synthesizer returns: NULL (both attempts failed) or a WAV buffer,
\* given by the sample rate in its header and the length of its PCM data.
TtsBuffers ==
    { [rate |-> 16000, bytes |-> 1280],
      [rate |-> 8000,  bytes |-> 320],
      [rate |-> 0,     bytes |-> 320],
      [rate |-> 0,     bytes |-> 0] }
\* Amounts by which the clock advances while the session is idle.
ClockSteps == {500}

\* ----------------------------------------------------------------- numbers
\* Date.now() + x and the comparisons on it, in JavaScript numbers: a
\* finite number is Fin(n); a division by a zero sample rate gives Infinity
\* or NaN, which stay what they are under addition, and every comparison
\* with NaN is false.
Fin(n) == [k |-> "finite", v |-> n]
INF == [k |-> "Infinity", v |-> 0]
NAN == [k |-> "NaN", v |-> 0]

IsFinite(x) == x.k = "finite"

NumAdd(a, b) ==
    IF a = NAN \/ b = NAN THEN NAN
    ELSE IF a = INF \/ b = INF THEN INF
    ELSE Fin(a.v + b.v)

NumLess(a, b) ==
    IF a = NAN \/ b = NAN THEN FALSE
    ELSE IF a = INF THEN FALSE
    ELSE IF b = INF THEN TRUE
    ELSE a.v < b.v

CeilDiv(a, b) == (a + b - 1) \div b

Max(a, b) == IF a >= b THEN a ELSE b

RECURSIVE SumSeq(_)
SumSeq(s) == IF s = <<>> THEN 0 ELSE Head(s) + SumSeq(Tail(s))

\* ------------------------------------------------------------------- state
VARIABLES
    now,               \* Date.now(), ms since the connection was accepted
    phase,             \* transport events so far: "connected", "started", "stopped"
    wsOpen,            \* twilioWs.readyState === OPEN
    callSid,           \* state.callSid
    sampleRate,        \* state.sampleRate
    pcmBufferParts,    \* state.pcmBufferParts: the byte length of each part
    pcmBytes,          \* state.pcmBytes
    inFlight,          \* state.inFlight
    ignoreUntil,       \* state.ignoreUntil
    sttSocket,         \* the closure's sttSocket: NULL or "socket"
    sttReady,          \* the closure's sttReady
    pendingSendChunks, \* the closure's pendingSendChunks: frame numbers
    sttLink,           \* the recognizer connection itself
    pipes,             \* handleFinalTranscript invocations past their guards
    rest,              \* batch recognizer requests not yet answered
    stopPc,            \* position of the stop handler
    framesIn,          \* media events delivered so far
    lastFrame,         \* what the handler did with the last media event
    sttSent,           \* frames handed to the streaming recognizer so far
    chunksOut,         \* chunks dispatched to the batch recognizer so far
    signalled,         \* recognizer signals delivered so far
    startedFor,        \* utterances for which a reply pipeline was started
    lastBatch,         \* the chunk whose transcript was last handed on
    lastReply,         \* the last thing handleFinalTranscript did: how its
                       \* last call went, or how its last invocation ended
    input,             \* the arguments of a function examined on its own
    output,            \* what that function has computed so far
    lastConfirmedLang, \* final4.js: the module's lastConfirmedLang
    replying,          \* final4.js: each connection's replying
    connCallSid,       \* final4.js: each connection's callSid
    resolutions,       \* final4.js: the calls of resolveFinalLang so far
    handlerPc,         \* server.js: position of the connection handler
    twilioOpen,        \* server.js: the call socket is open
    stt,               \* server.js: the recognizer socket
    sttOpen,           \* server.js: the handler's sttOpen
    buffer,            \* server.js: the handler's buffer, by frame number
    delivered,         \* server.js: media events the call socket has emitted
    handled,           \* server.js: media events its message handler received
    forwarded,         \* server.js: frames stt.transcribe has accepted
    openedAt           \* server.js: events handled when the "open" event came

bridgeVars ==
    << now, phase, wsOpen, callSid, sampleRate, pcmBufferParts, pcmBytes,
       inFlight, ignoreUntil, sttSocket, sttReady, pendingSendChunks, sttLink,
       pipes, rest, stopPc, framesIn, lastFrame, sttSent, chunksOut, signalled,
       startedFor, lastBatch, lastReply >>

\* The bridge's handlers never touch the arguments or the result of a function
\* examined on its own, and such a function never touches the session.
fnVars == << input, output >>

\* The state of the bridge of final4.js, a program of its own.
lockVars == << lastConfirmedLang, replying, connCallSid, resolutions >>

\* The state of a connection of server.js, a program of its own.
serverVars ==
    << handlerPc, twilioOpen, stt, sttOpen, buffer, delivered, handled,
       forwarded, openedAt >>

vars == << bridgeVars, fnVars, lockVars, serverVars >>

transportVars == << phase, wsOpen >>
sessionVars == << callSid, sampleRate >>
bufferVars == << pcmBufferParts, pcmBytes, chunksOut, rest >>
closureVars == << sttSocket, sttReady, pendingSendChunks >>
frameVars == << framesIn, lastFrame >>
callVars == << inFlight, pipes, startedFor, lastReply >>

\* "gu-IN", "hi-IN", "en-IN" and "unknown"
GU_IN == << 103, 117, 45, 73, 78 >>
HI_IN == << 104, 105, 45, 73, 78 >>
EN_IN == << 101, 110, 45, 73, 78 >>
UNKNOWN == << 117, 110, 107, 110, 111, 119, 110 >>

\* Connections of the bridge of final4.js that are open at the same time.
Calls == {"A", "B"}

\* final4.js after the module is loaded and the connections are accepted.
LockInit ==
    /\ lastConfirmedLang = EN_IN
    /\ replying = [c \in Calls |-> FALSE]
    /\ connCallSid = [c \in Calls |-> NULL]
    /\ resolutions = << >>

\* server.js when a connection is accepted: the handler has called
\* speechToTextStreaming.connect and awaits it.
ServerInit ==
    /\ handlerPc = "connecting"
    /\ twilioOpen = TRUE
    /\ stt = "none"
    /\ sttOpen = FALSE
    /\ buffer = << >>
    /\ delivered = 0
    /\ handled = << >>
    /\ forwarded = << >>
    /\ openedAt = 0

BridgeInit ==
    /\ now = 0
    /\ phase = "connected"
    /\ wsOpen = TRUE
    /\ callSid = NULL
    /\ sampleRate = TWILIO_SAMPLE_RATE
    /\ pcmBufferParts = <<>>
    /\ pcmBytes = 0
    /\ inFlight = FALSE
    /\ ignoreUntil = Fin(0)
    /\ sttSocket = NULL
    /\ sttReady = FALSE
    /\ pendingSendChunks = <<>>
    /\ sttLink = "none"
    /\ pipes = {}
    /\ rest = {}
    /\ stopPc = "none"
    /\ framesIn = 0
    /\ lastFrame = "none"
    /\ sttSent = 0
    /\ chunksOut = 0
    /\ signalled = {}
    /\ startedFor = {}
    /\ lastBatch = 0
    /\ lastReply = "none"

\* No function is examined on its own.
NoCall == [fn |-> "none"]
NoResult == [kind |-> "none"]

Init ==
    /\ BridgeInit
    /\ LockInit
    /\ ServerInit
    /\ input = NoCall
    /\ output = NoResult

\* ---------------------------------------------------------- reply pipeline
\* Date.now() < (state.ignoreUntil || 0), where NaN || 0 is 0.
InIgnoreWindow ==
    NumLess(Fin(now), IF ignoreUntil = NAN THEN Fin(0) ELSE ignoreUntil)

\* handleFinalTranscript without its test of the ignore window.
TranscriptNeverIgnored == FALSE

\* The first test of handleFinalTranscript.
TranscriptIgnored == InIgnoreWindow

\* The media branch without its test of the ignore window.
MediaNeverIgnored == FALSE

\* The first test of the media branch.
MediaIgnored == InIgnoreWindow

\* The guard on state.inFlight left out.
ReplyNeverBusy == FALSE

\* if (state.inFlight) return;
ReplyBusy == inFlight

\* A pipeline invocation right after state.inFlight = true: resolveFinalLang
\* has run and callDeepSeek is awaited.  id names the signal or chunk the
\* transcript comes from, caller the handler awaiting the invocation, buf the
\* synthesized buffer once there is one, sent the outbound frames sent so
\* far, wake the instant the pacer's sleep ends.
NoBuffer == [rate |-> 0, bytes |-> 0]

NewPipe(id, caller) ==
    [id |-> id, pc |-> "generate", caller |-> caller, buf |-> NoBuffer,
     sent |-> 0, wake |-> 0]

\* handleFinalTranscript up to its first await.  kind and n name the signal
\* or chunk the transcript comes from.
HandleFinalTranscript(kind, n, caller) ==
    IF TranscriptIgnored
    THEN /\ lastReply' = "ignored"
         /\ UNCHANGED << inFlight, pipes, startedFor >>
    ELSE IF ReplyBusy
    THEN /\ lastReply' = "busy"
         /\ UNCHANGED << inFlight, pipes, startedFor >>
    ELSE /\ lastReply' = "started"
         /\ inFlight' = TRUE
         /\ pipes' = pipes \cup {NewPipe(<< kind, n >>, caller)}
         /\ startedFor' = IF kind = "batch" THEN startedFor
                                            ELSE startedFor \cup {n}

\* sttSocket.close(), when sttSocket is set: the connection starts closing.
CloseSttSocket ==
    IF sttSocket # NULL /\ sttLink \in {"connecting", "open"}
    THEN "closing"
    ELSE sttLink

\* The finally block left out: state.inFlight stays as it is.
InFlightResetSkipped == inFlight

\* The finally block: the value of state.inFlight when an invocation ends.
InFlightAfterReply == FALSE

\* The end of an invocation: the finally block, then the rest of the handler
\* that awaited it (the stop branch goes on to close the recognizer socket).
Finish(p, until, how) ==
    /\ lastReply' = how
    /\ inFlight' = InFlightAfterReply
    /\ ignoreUntil' = until
    /\ pipes' = pipes \ {p}
    /\ IF p.caller = "stop"
       THEN /\ stopPc' = "done"
            /\ sttLink' = CloseSttSocket
       ELSE UNCHANGED << stopPc, sttLink >>

\* An invocation moves on to its next await.
Continue(p, q) ==
    /\ pipes' = (pipes \ {p}) \cup {q}
    /\ UNCHANGED << inFlight, ignoreUntil, lastReply, stopPc, sttLink >>

\* What no step of a pipeline invocation changes.
pipeFrame ==
    << transportVars, sessionVars, bufferVars, closureVars, frameVars, sttSent,
       signalled, startedFor, lastBatch, fnVars, lockVars, serverVars >>

\* callDeepSeek answers, with a reply or with the apology: the synthesizer
\* is called with either.
GeneratorReturns(p) ==
    /\ p \in pipes /\ p.pc = "generate"
    /\ Continue(p, [p EXCEPT !.pc = "synthesize"])
    /\ UNCHANGED << now, pipeFrame >>

\* The generator's HTTP request is never answered: fetch is called without a
\* timeout or abort signal, so the await never resumes.
GeneratorNeverAnswers(p) ==
    /\ p \in pipes /\ p.pc = "generate"
    /\ Continue(p, [p EXCEPT !.pc = "generate_unanswered"])
    /\ UNCHANGED << now, pipeFrame >>

\* The same for the synthesizer's REST attempt.
SynthNeverAnswers(p) ==
    /\ p \in pipes /\ p.pc = "synthesize"
    /\ Continue(p, [p EXCEPT !.pc = "synthesize_unanswered"])
    /\ UNCHANGED << now, pipeFrame >>

\* A synthesizer failure that also closes the call socket.
SynthFailsEndsCall(p) ==
    /\ p \in pipes /\ p.pc = "synthesize"
    /\ Finish(p, ignoreUntil, "no_audio")
    /\ wsOpen' = FALSE
    /\ UNCHANGED << now, phase, sessionVars, bufferVars, closureVars, frameVars,
                    sttSent, signalled, startedFor, lastBatch, fnVars, lockVars, serverVars >>

\* sarvamTtsGetBuffer returns null (the SDK attempt and the REST attempt both
\* failed or returned no audio): playback is skipped.
SynthFails(p) ==
    /\ p \in pipes /\ p.pc = "synthesize"
    /\ Finish(p, ignoreUntil, "no_audio")
    /\ UNCHANGED << now, pipeFrame >>

\* The mu-law bytes the pacer sends for a PCM buffer: resample16kTo8k halves
\* the samples of a 16 kHz buffer, every other rate is sent as it is.
MuLawLength(buf) ==
    IF buf.rate = 16000 THEN (buf.bytes \div 2) \div 2 ELSE buf.bytes \div 2

\* The duration taken at the rate asked of the synthesizer, not at the rate
\* in the header.
IgnoreMsAtTtsRate(buf) ==
    Fin(CeilDiv(1000 * Max(0, buf.bytes), 2 * TTS_SAMPLE_RATE) + SAFETY_MARGIN_MS)

\* ignoreMs = Math.ceil(approxSec * 1000 + 350), approxSec = bytes / (rate * 2).
IgnoreMs(buf) ==
    IF buf.rate = 0
    THEN IF Max(0, buf.bytes) = 0 THEN NAN ELSE INF
    ELSE Fin(CeilDiv(1000 * Max(0, buf.bytes), 2 * buf.rate) + SAFETY_MARGIN_MS)

\* The ignore window computed without the safety margin.
IgnoreUntilNoMargin(streamed, t, buf) ==
    IF streamed /\ buf.rate # 0
    THEN Fin(t + CeilDiv(1000 * Max(0, buf.bytes), 2 * buf.rate))
    ELSE ignoreUntil

\* The value handleFinalTranscript leaves in state.ignoreUntil when the
\* pacer has returned streamed at instant t.
IgnoreUntilAfter(streamed, t, buf) ==
    IF streamed THEN NumAdd(Fin(t), IgnoreMs(buf)) ELSE ignoreUntil

\* The names in scope where the fallback builds the audio URL (line 670): the
\* module's imports and constants, the closure of the connection handler,
\* and the parameters and declarations of handleFinalTranscript's enclosing
\* blocks.  ttsFilename is a const of the block of the debug save (626-631)
\* and of no block enclosing line 670.
FallbackScope ==
    { "path", "NGROK_URL", "state", "twilioWs", "transcript", "sttLang", "lang",
      "aiReply", "ttsBuf", "headerSampleRate", "dataOffset", "pcm16Data",
      "streamed" }

\* path.basename(ttsFilename): reading a name that is not in scope throws a
\* ReferenceError, which the catch at line 673 logs.
FallbackThrows == "ttsFilename" \notin FallbackScope

\* if (state.callSid) { try { ... await updateCallPlayAndReconnect(..) } .. }
RedirectIssued == callSid # NULL /\ ~FallbackThrows

\* How an invocation whose pacer returned false ends: with the redirect
\* issued, or the way the pacer failed.
FallbackEnd(how) == IF RedirectIssued THEN "redirected" ELSE how

\* sarvamTtsGetBuffer returns a buffer; the WAV header is parsed and the
\* pacer is called.  With the call socket closed the pacer returns false;
\* the fallback then reads ttsFilename, which is declared in the block of
\* the debug save and is out of scope here, so a ReferenceError is thrown
\* and caught before updateCallPlayAndReconnect is called.  With the socket
\* open the pacer sends the first frame and sleeps, or returns true at once
\* for an empty buffer.
SynthReturns(p, buf) ==
    /\ p \in pipes /\ p.pc = "synthesize"
    /\ IF ~wsOpen
       THEN Finish(p, IgnoreUntilAfter(FALSE, now, buf), FallbackEnd("socket_closed"))
       ELSE IF MuLawLength(buf) = 0
       THEN Finish(p, IgnoreUntilAfter(TRUE, now, buf), "streamed")
       ELSE Continue(p, [p EXCEPT !.pc = "sleeping", !.buf = buf, !.sent = 1,
                                  !.wake = now + FRAME_SLEEP_MS])
    /\ UNCHANGED << now, pipeFrame >>

\* sleep(20) ends (the timer fires at its instant, or later if the clock has
\* moved on) and the pacer's loop goes on: it returns true after the last
\* frame, or sends the next one.  A send on a socket that has closed
\* meanwhile either throws (the pacer returns false) or drops the frame
\* silently, depending on the socket library.
PacerWakes(p, throws) ==
    /\ p \in pipes /\ p.pc = "sleeping"
    /\ now' = Max(now, p.wake)
    /\ IF p.sent * chunkBytes >= MuLawLength(p.buf)
       THEN /\ throws = FALSE
            /\ Finish(p, IgnoreUntilAfter(TRUE, now', p.buf), "streamed")
       ELSE IF ~wsOpen /\ throws
       THEN Finish(p, IgnoreUntilAfter(FALSE, now', p.buf),
                   FallbackEnd("send_failed"))
       ELSE /\ throws = FALSE
            /\ Continue(p, [p EXCEPT !.sent = p.sent + 1,
                                     !.wake = now' + FRAME_SLEEP_MS])
    /\ UNCHANGED pipeFrame

\* ------------------------------------------------------ streaming recognizer
\* The start branch: callSid and sampleRate are set and tryInitSarvamStreaming
\* is called without being awaited; it returns at once when a socket exists
\* and otherwise awaits the SDK's connect.
Start(sid, rate) ==
    /\ phase = "connected" /\ wsOpen
    /\ phase' = "started"
    /\ callSid' = sid
    /\ sampleRate' = rate
    /\ sttLink' = IF sttSocket # NULL \/ sttReady THEN sttLink ELSE "sdk_connecting"
    /\ UNCHANGED << now, wsOpen, bufferVars, closureVars, frameVars, sttSent,
                    callVars, ignoreUntil, stopPc, signalled, lastBatch, fnVars, lockVars, serverVars >>

\* What no event of the recognizer connection changes.
linkFrame ==
    << now, transportVars, sessionVars, bufferVars, frameVars, callVars,
       ignoreUntil, stopPc, signalled, lastBatch, fnVars, lockVars, serverVars >>

\* The SDK's connect resolves: sttSocket is set and the handlers are attached.
SdkConnects ==
    /\ sttLink = "sdk_connecting"
    /\ sttSocket' = "socket"
    /\ sttLink' = "connecting"
    /\ UNCHANGED << linkFrame, sttReady, pendingSendChunks, sttSent >>

\* The SDK's connect rejects: the raw WebSocket is created in its place.
SdkConnectFails ==
    /\ sttLink = "sdk_connecting"
    /\ sttSocket' = "socket"
    /\ sttLink' = "connecting"
    /\ UNCHANGED << linkFrame, sttReady, pendingSendChunks, sttSent >>

\* The "open" handler: sttReady = true, then flushPendingToStt sends every
\* pending packet through sendToStt.
SttOpens ==
    /\ sttLink = "connecting"
    /\ sttLink' = "open"
    /\ sttReady' = TRUE
    /\ sttSent' = sttSent + Len(pendingSendChunks)
    /\ pendingSendChunks' = <<>>
    /\ UNCHANGED << linkFrame, sttSocket >>

\* The "error" handler: sttReady = false; sttSocket is kept.
SttErrors ==
    /\ sttLink \in {"connecting", "open"}
    /\ sttLink' = "errored"
    /\ sttReady' = FALSE
    /\ UNCHANGED << linkFrame, sttSocket, pendingSendChunks, sttSent >>

\* The recognizer's end starts closing the connection: the socket leaves the
\* OPEN state at once, while its "close" event (the handler below) is
\* delivered later.  Until then sttReady and sttSocket are as they were, and
\* a send on the socket throws or is dropped by the socket library.
SttPeerCloses ==
    /\ sttLink = "open"
    /\ sttLink' = "closing"
    /\ UNCHANGED << linkFrame, closureVars, sttSent >>

\* The "close" handler: sttReady = false, sttSocket = null.
SttCloses ==
    /\ sttLink \in {"connecting", "open", "errored", "closing"}
    /\ sttLink' = "closed"
    /\ sttReady' = FALSE
    /\ sttSocket' = NULL
    /\ UNCHANGED << linkFrame, pendingSendChunks, sttSent >>

\* The two signals by which the streaming recognizer reports an utterance, and
\* whether it has sent signal kind for utterance u: each is sent once.
SignalKinds == {"transcript", "speech_end"}

Signalled(kind, u) == << kind, u >> \in signalled

\* Whether handleFinalTranscript, called now, goes past its two guards.
Accepts == ~TranscriptIgnored /\ ~ReplyBusy

\* The "transcript" (final) and "speech_end" handlers of the SDK socket, and
\* the raw socket's "message" handler for the same two events: both call
\* handleFinalTranscript with the text of utterance u.
SttSignal(kind, u) ==
    /\ sttLink \in {"open", "closing"}
    /\ sttSent > 0
    /\ ~Signalled(kind, u)
    /\ u = 1 \/ \E k \in SignalKinds : Signalled(k, u - 1)
    /\ signalled' = signalled \cup {<< kind, u >>}
    /\ HandleFinalTranscript(kind, u, "stt")
    /\ UNCHANGED << now, transportVars, sessionVars, bufferVars, closureVars,
                    sttLink, frameVars, sttSent, ignoreUntil, stopPc, lastBatch,
                    fnVars, lockVars, serverVars >>

\* ------------------------------------------------------------ frame buffer
\* chunkByteTarget = Math.ceil(CHUNK_SECONDS * state.sampleRate * 2)
ChunkByteTarget == CeilDiv(CHUNK_SECONDS_TENTHS * sampleRate * 2, 10)

\* The test of the chunk size without the test of state.inFlight.
DispatchWhenFull(bytes) == bytes >= ChunkByteTarget

\* if (state.pcmBytes >= chunkByteTarget && !state.inFlight)
ShouldDispatch(bytes) == bytes >= ChunkByteTarget /\ ~inFlight

\* if (state.pcmBytes > 0 && !state.inFlight), in the stop branch
ShouldDispatchOnStop == pcmBytes > 0 /\ ~inFlight

\* The chunk is cut and sent: Buffer.concat of the parts (bytes long), the
\* buffer is emptied and sarvamRestSttFromPcm is awaited.
Dispatch(caller, bytes) ==
    /\ pcmBufferParts' = <<>>
    /\ pcmBytes' = 0
    /\ chunksOut' = chunksOut + 1
    /\ rest' = rest \cup
          {[chunk |-> chunksOut + 1, caller |-> caller, bytes |-> bytes]}

\* The test for the streaming path with sttReady left out.
StreamingSocketSet == sttSocket # NULL

\* if (sttReady && sttSocket), the test for the streaming path
StreamingReady == sttReady /\ sttSocket # NULL

\* The media branch with forwardFrameToSarvamOrBuffer, up to its first await.
\* size is the length of the mu-law payload; its PCM is twice as long.
Media(size) ==
    /\ phase = "started" /\ wsOpen
    /\ framesIn < MaxFrames
    /\ framesIn' = framesIn + 1
    /\ IF MediaIgnored
       THEN /\ lastFrame' = "ignored"
            /\ UNCHANGED << bufferVars, pendingSendChunks, sttSent >>
       ELSE IF size = 0
       THEN /\ lastFrame' = "empty"
            /\ UNCHANGED << bufferVars, pendingSendChunks, sttSent >>
       ELSE IF StreamingReady
       THEN IF sttLink = "open"
            THEN /\ lastFrame' = "streamed"
                 /\ sttSent' = sttSent + 1
                 /\ UNCHANGED << bufferVars, pendingSendChunks >>
            ELSE /\ lastFrame' = "pending"
                 /\ pendingSendChunks' = Append(pendingSendChunks, framesIn + 1)
                 /\ UNCHANGED << bufferVars, sttSent >>
       ELSE /\ lastFrame' = "buffered"
            /\ IF ShouldDispatch(pcmBytes + 2 * size)
               THEN Dispatch("media", pcmBytes + 2 * size)
               ELSE /\ pcmBufferParts' = Append(pcmBufferParts, 2 * size)
                    /\ pcmBytes' = pcmBytes + 2 * size
                    /\ UNCHANGED << chunksOut, rest >>
            /\ UNCHANGED << pendingSendChunks, sttSent >>
    /\ UNCHANGED << now, transportVars, sessionVars, sttSocket, sttReady,
                    sttLink, callVars, ignoreUntil, stopPc, signalled, lastBatch,
                    fnVars, lockVars, serverVars >>

\* sarvamRestSttFromPcm returns; with a non-empty transcript
\* handleFinalTranscript is called.  The stop branch, when nothing is left to
\* await, goes on to close the recognizer socket.
RestReturns(r, hasText) ==
    /\ r \in rest
    /\ rest' = rest \ {r}
    /\ IF hasText
       THEN /\ HandleFinalTranscript("batch", r.chunk, r.caller)
            /\ lastBatch' = r.chunk
       ELSE UNCHANGED << callVars, lastBatch >>
    /\ IF r.caller = "stop" /\ ~(hasText /\ Accepts)
       THEN /\ stopPc' = "done"
            /\ sttLink' = CloseSttSocket
       ELSE UNCHANGED << stopPc, sttLink >>
    /\ UNCHANGED << now, transportVars, sessionVars, pcmBufferParts, pcmBytes,
                    chunksOut, closureVars, frameVars, sttSent, ignoreUntil,
                    signalled, fnVars, lockVars, serverVars >>

\* The stop branch, up to its first await.
Stop ==
    /\ phase = "started" /\ wsOpen
    /\ phase' = "stopped"
    /\ IF ShouldDispatchOnStop
       THEN /\ Dispatch("stop", pcmBytes)
            /\ stopPc' = "rest"
            /\ UNCHANGED sttLink
       ELSE /\ stopPc' = "done"
            /\ sttLink' = CloseSttSocket
            /\ UNCHANGED bufferVars
    /\ UNCHANGED << now, wsOpen, sessionVars, closureVars, frameVars, sttSent,
                    callVars, ignoreUntil, signalled, lastBatch, fnVars, lockVars, serverVars >>

\* The call socket's "close" handler.
WsClose ==
    /\ wsOpen
    /\ wsOpen' = FALSE
    /\ sttLink' = CloseSttSocket
    /\ UNCHANGED << now, phase, sessionVars, bufferVars, closureVars,
                    frameVars, sttSent, callVars, ignoreUntil, stopPc, signalled,
                    lastBatch, fnVars, lockVars, serverVars >>

\* Time passes.
Tick(d) ==
    /\ now + d <= MaxClock
    /\ now' = now + d
    /\ UNCHANGED << transportVars, sessionVars, bufferVars, closureVars,
                    sttLink, frameVars, sttSent, callVars, ignoreUntil, stopPc,
                    signalled, lastBatch, fnVars, lockVars, serverVars >>

\* ----------------------------------------------------------- specification
Next ==
    \/ \E sid \in CallSids, rate \in StartSampleRates : Start(sid, rate)
    \/ SdkConnects
    \/ SdkConnectFails
    \/ SttOpens
    \/ SttErrors
    \/ SttPeerCloses
    \/ SttCloses
    \/ \E kind \in SignalKinds, u \in 1..MaxUtterances : SttSignal(kind, u)
    \/ \E size \in PayloadSizes : Media(size)
    \/ \E r \in rest, hasText \in BOOLEAN : RestReturns(r, hasText)
    \/ Stop
    \/ WsClose
    \/ \E d \in ClockSteps : Tick(d)
    \/ \E p \in pipes : GeneratorReturns(p)
    \/ \E p \in pipes : GeneratorNeverAnswers(p)
    \/ \E p \in pipes : SynthNeverAnswers(p)
    \/ \E p \in pipes : SynthFails(p)
    \/ \E p \in pipes, buf \in TtsBuffers : SynthReturns(p, buf)
    \/ \E p \in pipes, throws \in BOOLEAN : PacerWakes(p, throws)

Spec == Init /\ [][Next]_vars

\* The scheduling the runtime guarantees: a collaborator's answer, once it has
\* arrived, resumes the invocation awaiting it, and a timer that is due fires.
\* Nothing makes a collaborator answer.
FairSpec ==
    /\ Spec
    /\ WF_vars(\E p \in pipes : GeneratorReturns(p))
    /\ WF_vars(\E p \in pipes : SynthFails(p) \/ \E buf \in TtsBuffers : SynthReturns(p, buf))
    /\ WF_vars(\E p \in pipes, throws \in BOOLEAN : PacerWakes(p, throws))

\* ---------------------------------------------------------- text generator
\* langCode as handleFinalTranscript passes it.
LangCodes == {"gu-IN", "hi-IN", "en-IN", "unknown"}

\* The characters of a reply, by what the sanitizing expressions make of
\* them: a letter, a space, a punctuation mark of [!?.,], an emoji
\* (Extended_Pictographic) and a lone surrogate.
ReplyChars == {"a", " ", "!", "emoji", "surrogate"}

RECURSIVE SeqsUpTo(_, _)
SeqsUpTo(S, n) ==
    IF n = 0 THEN {<< >>}
    ELSE LET shorter == SeqsUpTo(S, n - 1)
         IN  shorter \cup {Append(s, c) : s \in {x \in shorter : Len(x) = n - 1}, c \in S}

\* json?.choices?.[0]?.message?.content as the API may return it: missing
\* (the body is no JSON or holds no such field), or a text.
ReplyContents ==
    {[missing |-> TRUE, text |-> << >>]} \cup
    {[missing |-> FALSE, text |-> s] : s \in SeqsUpTo(ReplyChars, MaxReplyChars)}

\* The fixed apology of a language: a text that is not empty.
Apology(lang) ==
    IF lang = "gu-IN" THEN << "apology_gu" >>
    ELSE IF lang = "hi-IN" THEN << "apology_hi" >>
    ELSE << "apology_en" >>

\* reply.replace(/([!?.,])\1+/g, "$1"): a run of one punctuation mark
\* becomes a single mark.
RECURSIVE CollapseMarks(_)
CollapseMarks(s) ==
    IF Len(s) < 2 THEN s
    ELSE IF s[1] = "!" /\ s[2] = "!" THEN CollapseMarks(Tail(s))
    ELSE << s[1] >> \o CollapseMarks(Tail(s))

\* String.prototype.trim
RECURSIVE TrimLeft(_)
TrimLeft(s) == IF s # << >> /\ s[1] = " " THEN TrimLeft(Tail(s)) ELSE s

RECURSIVE TrimRight(_)
TrimRight(s) ==
    IF s # << >> /\ s[Len(s)] = " " THEN TrimRight(SubSeq(s, 1, Len(s) - 1)) ELSE s

Trim(s) == TrimLeft(TrimRight(s))

\* reply.length > 200: the reply is cut there and "..." is appended.
REPLY_LIMIT == 200

Truncate(s) ==
    IF Len(s) > REPLY_LIMIT THEN SubSeq(s, 1, REPLY_LIMIT) \o << ".", ".", "." >> ELSE s

\* Lines 197-203: content || "", the three replace calls, the cut at 200
\* characters, and trim.
Sanitize(content) ==
    Trim(Truncate(CollapseMarks(
        SelectSeq(IF content.missing THEN << >> ELSE content.text,
                  LAMBDA c : c \notin {"emoji", "surrogate"}))))

\* callDeepSeek(userText, langCode): without a key the apology; a fetch that
\* throws or a status that is not ok ends in the catch block, which returns
\* the apology; otherwise the sanitized content is returned as it is.
CallDeepSeekResult(a) ==
    IF ~a.key THEN [kind |-> "returned", text |-> Apology(a.lang)]
    ELSE IF a.http \in {"throws", "status_error"}
    THEN [kind |-> "returned", text |-> Apology(a.lang)]
    ELSE [kind |-> "returned", text |-> Sanitize(a.content)]

GeneratorCalls ==
    [fn : {"callDeepSeek"}, key : BOOLEAN, http : {"throws", "status_error", "ok"},
     content : ReplyContents, lang : LangCodes]

GeneratorInit ==
    /\ BridgeInit
    /\ LockInit
    /\ ServerInit
    /\ input \in GeneratorCalls
    /\ output = NoResult

\* callDeepSeek runs to its return.
CallDeepSeek ==
    /\ input \in GeneratorCalls
    /\ output = NoResult
    /\ output' = CallDeepSeekResult(input)
    /\ UNCHANGED << bridgeVars, lockVars, serverVars, input >>

GeneratorNext == CallDeepSeek

GeneratorSpec == GeneratorInit /\ [][GeneratorNext]_vars

\* ------------------------------------------------------------------- pacer
\* streamPcm16ToTwilioWs on its own, frame by frame.  Its arguments: whether
\* twilioWs is open at the call, the PCM16 buffer (its length in bytes) and
\* the sample rate; failAt is the send, by number, at which twilioWs.send
\* throws (0: none does), as it may once the socket has closed under way.
PcmLengths == {0, 2, 320, 640, 700}
PacerRates == {8000, 16000, 24000}

PacerCalls ==
    [fn : {"streamPcm16ToTwilioWs"}, open : BOOLEAN, rate : PacerRates,
     bytes : PcmLengths, failAt : 0..MaxFailAt]

Min(a, b) == IF a <= b THEN a ELSE b

\* Every frame taken as chunkBytes long, whatever is left of the buffer.
FrameLengthFixed(n, i) == chunkBytes

\* muBuf.slice(i, i + chunkBytes).length for a muBuf of n bytes
FrameLength(n, i) == Min(chunkBytes, n - i)

PacerInit ==
    /\ BridgeInit
    /\ LockInit
    /\ ServerInit
    /\ input \in PacerCalls
    /\ output = NoResult

PacerReturned(ret, frames, sleeps) ==
    [kind |-> "returned", ret |-> ret, frames |-> frames, sleeps |-> sleeps]

\* The call up to the loop: the test of readyState, the resampling and the
\* encoding.  n is muBuf.length, i the loop's index.
PacerEnters ==
    /\ input \in PacerCalls
    /\ output = NoResult
    /\ output' =
          IF ~input.open
          THEN PacerReturned(FALSE, << >>, 0)
          ELSE [kind |-> "loop", i |-> 0,
                n |-> MuLawLength([rate |-> input.rate, bytes |-> input.bytes]),
                frames |-> << >>, sleeps |-> 0]
    /\ UNCHANGED << bridgeVars, lockVars, serverVars, input >>

\* One pass of the loop up to its await: the frame is cut and sent, or the
\* send throws and false is returned.
PacerSends ==
    /\ output.kind = "loop"
    /\ output.i < output.n
    /\ output' =
          IF input.failAt = Len(output.frames) + 1
          THEN PacerReturned(FALSE, output.frames, output.sleeps)
          ELSE [output EXCEPT
                  !.kind = "sleep",
                  !.frames = Append(@, [from |-> output.i,
                                        len |-> FrameLength(output.n, output.i)])]
    /\ UNCHANGED << bridgeVars, lockVars, serverVars, input >>

\* await sleep(20) ends, and i += chunkBytes.
PacerSleeps ==
    /\ output.kind = "sleep"
    /\ output' = [output EXCEPT !.kind = "loop", !.sleeps = @ + 1,
                                 !.i = @ + chunkBytes]
    /\ UNCHANGED << bridgeVars, lockVars, serverVars, input >>

\* The loop's test fails: return true.
PacerReturns ==
    /\ output.kind = "loop"
    /\ output.i >= output.n
    /\ output' = PacerReturned(TRUE, output.frames, output.sleeps)
    /\ UNCHANGED << bridgeVars, lockVars, serverVars, input >>

PacerNext ==
    \/ PacerEnters
    \/ PacerSends
    \/ PacerSleeps
    \/ PacerReturns

PacerSpec == PacerInit /\ [][PacerNext]_vars

\* ------------------------------------------------------------------- codec
\* The mu-law decoder and encoder, one byte at a time.
Bytes == 0..255

RECURSIVE Pow2(_)
Pow2(n) == IF n = 0 THEN 1 ELSE 2 * Pow2(n - 1)

\* The sample before the clamp to 16 bits, for u_val = ~byte & 0xff:
\* ((mantissa << 3) + 0x84) << exponent, minus 0x84.
MuLawMagnitude(u) == ((u % 16) * 8 + 132) * Pow2((u \div 16) % 8) - 132

Clamp16(s) == IF s > 32767 THEN 32767 ELSE IF s < -32768 THEN -32768 ELSE s

\* The decoder without the test of the sign bit.
MuLawDecodeUnsigned(b) == Clamp16(MuLawMagnitude(255 - b))

\* muLawToPcm16Buffer, for one byte: the sign is bit 7 of u_val.
MuLawDecode(b) ==
    LET u == 255 - b
    IN  Clamp16(IF u >= 128 THEN 0 - MuLawMagnitude(u) ELSE MuLawMagnitude(u))

\* Math.floor(Math.log1p(255 * s / 32767) / Math.log1p(255) * 127) for
\* s in 0..32767 as a table: entry c + 1 is the least s for which the
\* expression, evaluated in double precision, is at least c.  (No s brings
\* the product closer than 0.00001 to an integer, so rounding decides none.)
MuLawSteps ==
    << 0, 6, 12, 18, 25, 32, 39, 46, 54, 62, 71, 80, 89, 99, 109, 119,
       130, 142, 154, 167, 180, 193, 208, 223, 238, 255, 272, 290,
       308, 328, 348, 369, 392, 415, 439, 464, 491, 518, 547, 577,
       609, 642, 676, 712, 750, 789, 830, 872, 917, 964, 1012, 1063,
       1116, 1172, 1230, 1291, 1354, 1420, 1489, 1561, 1637, 1715,
       1798, 1884, 1973, 2067, 2165, 2267, 2374, 2486, 2603, 2725,
       2852, 2985, 3124, 3269, 3421, 3579, 3744, 3917, 4098, 4286,
       4483, 4689, 4904, 5129, 5363, 5608, 5864, 6132, 6411, 6703,
       7008, 7326, 7659, 8007, 8370, 8749, 9145, 9559, 9991, 10443,
       10915, 11407, 11922, 12460, 13022, 13609, 14222, 14862, 15531,
       16230, 16960, 17723, 18520, 19352, 20221, 21129, 22078, 23069,
       24105, 25186, 26316, 27496, 28729, 30017, 31362, 32767 >>

Compress(s) == Cardinality({c \in 1..128 : MuLawSteps[c] <= s}) - 1

\* The encoder without the final complement.
LinearToMuLawNotInverted(sample) ==
    LET sign == IF sample < 0 THEN 128 ELSE 0
        mag == IF sample < 0 THEN 0 - sample ELSE sample
    IN  sign + Compress(IF mag > 32767 THEN 32767 ELSE mag)

\* linearToMuLawSample, for a 16-bit sample: (sample >> 8) & 0x80 is 0x80
\* exactly for the negative samples; the result is ~(sign | compressed) & 0xFF.
LinearToMuLawSample(sample) ==
    LET sign == IF sample < 0 THEN 128 ELSE 0
        mag == IF sample < 0 THEN 0 - sample ELSE sample
    IN  255 - (sign + Compress(IF mag > 32767 THEN 32767 ELSE mag))

CodecInit ==
    /\ BridgeInit
    /\ LockInit
    /\ ServerInit
    /\ input \in [fn : {"codec"}, byte : Bytes]
    /\ output = NoResult

\* muLawToPcm16Buffer decodes the byte.
Decodes ==
    /\ input.fn = "codec"
    /\ output = NoResult
    /\ output' = [kind |-> "decoded", sample |-> MuLawDecode(input.byte)]
    /\ UNCHANGED << bridgeVars, lockVars, serverVars, input >>

\* pcm16ToMuLawBuffer encodes the sample again.
Encodes ==
    /\ output.kind = "decoded"
    /\ output' = [kind |-> "encoded", sample |-> output.sample,
                  byte |-> LinearToMuLawSample(output.sample)]
    /\ UNCHANGED << bridgeVars, lockVars, serverVars, input >>

CodecNext ==
    \/ Decodes
    \/ Encodes

CodecSpec == CodecInit /\ [][CodecNext]_vars

\* ------------------------------------------------------------------ claims
\* The invocations in progress, by the signal or chunk each replies to.
PipeIds(ps) == {p.id : p \in ps}

\* A pipeline invocation starts, or ends, in this step.
StartsReply == PipeIds(pipes') \ PipeIds(pipes) # {}
EndsReply == PipeIds(pipes) \ PipeIds(pipes') # {}

\* The transcripts handed to handleFinalTranscript in this step: the signal
\* delivered, or the chunk whose transcript the batch recognizer returned.
ArrivingFinals ==
    (signalled' \ signalled) \cup
    (IF lastBatch' # lastBatch THEN {<< "batch", lastBatch' >>} ELSE {})

\* A media event is handled in this step.
MediaArrives == framesIn' = framesIn + 1

\* A chunk is dispatched to the batch recognizer in this step.
Dispatches == chunksOut' # chunksOut

\* C1: at most one reply pipeline invocation is in progress at any time; a
\* final transcript that arrives while inFlight is true starts none, and it
\* is not kept for later: an invocation starts only in the step in which its
\* transcript arrives.
OneReplyAtATime ==
    /\ [](Cardinality(pipes) <= 1)
    /\ [][inFlight => ~StartsReply]_vars
    /\ [][PipeIds(pipes') \ PipeIds(pipes) \subseteq ArrivingFinals]_vars

\* C1 witness: a final transcript has just been dropped because an
\* invocation is in progress.
FinalDroppedWhileBusy ==
    lastReply = "busy" /\ Cardinality(pipes) = 1 /\ inFlight

\* C2: a media frame that arrives while the clock is earlier than ignoreUntil
\* changes neither the batch buffer nor what the recognizers were sent.
FrameInWindowDropped ==
    [][(MediaArrives /\ NumLess(Fin(now), ignoreUntil)) =>
          UNCHANGED << pcmBufferParts, pcmBytes, sttSent, pendingSendChunks,
                       chunksOut, rest >>]_vars

\* C2 witness: a frame has arrived inside the ignore window left by a reply.
FrameArrivedInWindow ==
    lastFrame = "ignored" /\ NumLess(Fin(now), ignoreUntil)

\* C3: whenever an invocation ends, however it ends, inFlight is false
\* afterwards; it is false whenever no invocation is in progress, so a final
\* transcript that then arrives outside the ignore window starts a reply.
ReplyEndResetsInFlight ==
    /\ [][EndsReply => ~inFlight']_vars
    /\ [](pipes = {} => ~inFlight)
    /\ [][(ArrivingFinals # {} /\ pipes = {} /\ ~NumLess(Fin(now), ignoreUntil))
            => StartsReply]_vars

\* C3 witness: an invocation has ended on a failed send of the pacer, and
\* inFlight is false.
ReplyEndedOnFailure ==
    lastReply = "send_failed" /\ pipes = {} /\ ~inFlight

\* The instant the claims give for the end of the ignore window after a
\* buffer of the given PCM bytes and header rate, played until instant t.
WindowEnd(t, buf) ==
    Fin(t + CeilDiv(1000 * buf.bytes, 2 * buf.rate) + 350)

\* The buffer the invocation ending in this step has played, or skipped.
EndingBuffers ==
    {p.buf : p \in {q \in pipes : q.id \notin PipeIds(pipes') /\ q.pc = "sleeping"}}

\* C4 as claimed: every invocation that ends, whether it succeeded or failed,
\* sets ignoreUntil to its completion time plus the estimated playback
\* duration (none when nothing was played) plus the 350 ms margin.
EveryReplyEndSetsWindow ==
    [][EndsReply =>
          \/ \E buf \in EndingBuffers :
                buf.rate > 0 /\ ignoreUntil' = WindowEnd(now', buf)
          \/ EndingBuffers = {} /\ ignoreUntil' = Fin(now' + 350)
          \/ ~IsFinite(ignoreUntil')]_vars

\* C4 as amended: an invocation whose pacer returned true sets ignoreUntil
\* to the instant the pacer returned plus the estimated playback duration
\* plus 350 ms (not a finite instant when the header's sample rate is 0);
\* an invocation that ends otherwise leaves ignoreUntil as it was.
WindowSetOnlyAfterPlayback ==
    [][EndsReply =>
          IF lastReply' = "streamed"
          THEN \E buf \in IF EndingBuffers = {}
                          THEN {b \in TtsBuffers : MuLawLength(b) = 0}
                          ELSE EndingBuffers :
                  IF buf.rate > 0
                  THEN ignoreUntil' = WindowEnd(now', buf)
                  ELSE ~IsFinite(ignoreUntil')
          ELSE ignoreUntil' = ignoreUntil]_vars

\* C4 witness: the pacer has just returned true and the window is open.
WindowOpenAfterPlayback ==
    /\ lastReply = "streamed"
    /\ pipes = {}
    /\ IsFinite(ignoreUntil)
    /\ ignoreUntil.v >= now + 350

\* An invocation is playing: its pacer has sent a frame and has not returned.
Playing == \E p \in pipes : p.pc = "sleeping" /\ p.sent >= 1

\* C5: while a reply is being played into the call, an inbound media frame
\* is neither forwarded to the recognizer nor appended to the batch buffer.
PlaybackSuppressesInbound ==
    [][(Playing /\ MediaArrives) =>
          UNCHANGED << pcmBufferParts, pcmBytes, sttSent, pendingSendChunks,
                       chunksOut, rest >>]_vars

\* C6: once a transcript has been accepted for reply, inFlight is eventually
\* false again, also when the generator or the synthesizer never answers.
InFlightEventuallyReset == inFlight ~> ~inFlight

\* C7: the batch recognizer's transcripts reach handleFinalTranscript in the
\* order in which their chunks were dispatched.
BatchTranscriptsInOrder == [][lastBatch' >= lastBatch]_vars

\* ceil(CHUNK_SECONDS * sampleRate * 2) for CHUNK_SECONDS = 0.9, and the
\* requests sent to the batch recognizer in this step.
ClaimedTarget == CeilDiv(9 * sampleRate * 2, 10)
NewRequests == rest' \ rest

\* C8: no chunk is dispatched while a reply is in flight, on a media frame
\* or on stop; a media frame that reaches the buffer dispatches exactly when
\* the accumulated bytes reach ceil(CHUNK_SECONDS * sampleRate * 2) and no
\* reply is in flight; a dispatch empties the buffer in the same step.
ChunkDispatchRule ==
    /\ [][Dispatches => ~inFlight]_vars
    /\ [][(MediaArrives /\ lastFrame' = "buffered") =>
            IF Dispatches
            THEN \A r \in NewRequests :
                    r.bytes >= ClaimedTarget /\ r.bytes > pcmBytes
            ELSE /\ pcmBytes' > pcmBytes
                 /\ pcmBytes' < ClaimedTarget \/ inFlight]_vars
    /\ [][Dispatches =>
            /\ pcmBufferParts' = <<>> /\ pcmBytes' = 0
            /\ Cardinality(NewRequests) = 1]_vars

\* C8 witness: the buffer holds a full chunk that was not dispatched, because
\* a reply is in flight.
FullBufferHeldBack ==
    inFlight /\ lastFrame = "buffered" /\ pcmBytes >= ChunkByteTarget

\* C9: an utterance that the recognizer reports by a final transcript and by
\* a speech_end signal starts at most one pipeline invocation.
UtteranceRepliedOnce ==
    [][\A id \in PipeIds(pipes') \ PipeIds(pipes) :
          id[1] \in SignalKinds => id[2] \notin startedFor]_vars

\* C10: once the stop event or the close of the call socket has been
\* handled, the session's audio buffer is empty.
BufferReleasedAtEnd ==
    (stopPc = "done" \/ ~wsOpen) => (pcmBufferParts = <<>> /\ pcmBytes = 0)

\* C11: once the stop event or the close of the call socket has been
\* handled, the session's recognizer connection is not open, also when its
\* connect attempt was still pending at that moment and completes later.
RecognizerClosedAtEnd ==
    (stopPc = "done" \/ ~wsOpen) => sttLink # "open"

\* The recognizer connection has failed: it reported an error, or it closed.
RecognizerFailed == sttLink \in {"errored", "closed"}

\* C12: once the streaming recognizer has reported an error or a close, a
\* media frame with a payload that arrives outside the ignore window goes to
\* the batch buffer (it is appended, or it completes a chunk that is
\* dispatched to the batch recognizer), and the recognizer's failure leaves
\* the call socket and the session's phase as they were.
FallsBackToBatch ==
    /\ [][(MediaArrives /\ RecognizerFailed /\ ~NumLess(Fin(now), ignoreUntil)) =>
            /\ lastFrame' \in {"buffered", "empty"}
            /\ UNCHANGED << sttSent, pendingSendChunks >>
            /\ lastFrame' = "buffered" => (pcmBytes' > pcmBytes \/ Dispatches)]_vars
    /\ [][(~RecognizerFailed /\ RecognizerFailed') =>
            UNCHANGED << wsOpen, phase >>]_vars

\* C12 witness: a frame was streamed, the recognizer then failed, and the
\* next frame went to the batch buffer.
FrameBufferedAfterFailure ==
    RecognizerFailed /\ sttSent > 0 /\ lastFrame = "buffered" /\ wsOpen

\* C13: callDeepSeek always returns, and what it returns is never the empty
\* string: without a key, on a failed request and on an output that is
\* empty (or empty once sanitized) it is the apology of the language.
GeneratorNeverEmpty ==
    (input.fn = "callDeepSeek" /\ output # NoResult) =>
        /\ output.kind = "returned"
        /\ output.text # << >>
        /\ (~input.key \/ input.http # "ok") => output.text = Apology(input.lang)

\* The invocation ending in this step ends after its pacer returned false.
EndsAfterPacerFailed ==
    EndsReply /\ lastReply' \in {"socket_closed", "send_failed", "redirected"}

\* C14: an invocation whose pacer returned false, in a session whose callSid
\* is known, issues the call-control redirect before it ends.
RedirectOnPacerFailure ==
    [][(EndsAfterPacerFailed /\ callSid # NULL) => lastReply' = "redirected"]_vars

\* The outbound frames sent by the invocation that ends in this step.
FramesSentByEnding ==
    {q.sent : q \in {r \in pipes : r.id \notin PipeIds(pipes')}}

\* C15: an invocation whose synthesizer produced no audio ends having sent
\* no outbound frame, with inFlight false, and leaves the call socket and the
\* session's phase as they were.
NoAudioSkipsPlayback ==
    [][(EndsReply /\ lastReply' = "no_audio") =>
          /\ FramesSentByEnding = {0}
          /\ ~inFlight'
          /\ UNCHANGED << wsOpen, phase >>]_vars

\* C15 witness: a turn has been dropped for lack of audio and the call is
\* still up.
TurnDroppedWithoutAudio ==
    lastReply = "no_audio" /\ pipes = {} /\ ~inFlight /\ wsOpen /\ phase = "started"

\* The pacer is examined and has returned; the bytes it had to send.
PacerDone == input.fn = "streamPcm16ToTwilioWs" /\ output.kind = "returned"
PacerBytes == MuLawLength([rate |-> input.rate, bytes |-> input.bytes])

\* The frames sent are consecutive slices from the start of the buffer, each
\* of 160 bytes except possibly frame number last.
ConsecutiveFrames(frames, last) ==
    \A k \in 1..Len(frames) :
        /\ frames[k].from = 160 * (k - 1)
        /\ IF k = last THEN frames[k].len \in 1..160 ELSE frames[k].len = 160

\* All of the buffer was sent: ceil(N / 160) frames that add up to N bytes.
AllFramesSent(frames) ==
    /\ Len(frames) = CeilDiv(PacerBytes, 160)
    /\ ConsecutiveFrames(frames, Len(frames))
    /\ SumSeq([k \in 1..Len(frames) |-> frames[k].len]) = PacerBytes

\* C16 as claimed: called with the socket not open the pacer returns false
\* having sent nothing; otherwise it sends the whole buffer as consecutive
\* frames of 160 bytes (the last possibly shorter), ceil(N / 160) of them,
\* waits after each, and returns true.
PacerSendsAllWhenOpen ==
    PacerDone =>
        IF ~input.open
        THEN ~output.ret /\ output.frames = << >>
        ELSE /\ output.ret
             /\ AllFramesSent(output.frames)
             /\ output.sleeps = Len(output.frames)

\* C16 as amended: as claimed, unless a send throws: the pacer then returns
\* false at once, having sent the full frames before that send, each
\* followed by its wait.  At every moment each frame sent but the one just
\* sent has been followed by a wait.
PacerSendsAllUnlessSendThrows ==
    /\ PacerDone =>
          IF ~input.open
          THEN ~output.ret /\ output.frames = << >>
          ELSE IF output.ret
          THEN /\ AllFramesSent(output.frames)
               /\ output.sleeps = Len(output.frames)
               /\ input.failAt \notin 1..Len(output.frames)
          ELSE /\ Len(output.frames) = input.failAt - 1
               /\ Len(output.frames) < CeilDiv(PacerBytes, 160)
               /\ ConsecutiveFrames(output.frames, 0)
               /\ output.sleeps = Len(output.frames)
    /\ output.kind = "loop" => output.sleeps = Len(output.frames)
    /\ output.kind = "sleep" => output.sleeps = Len(output.frames) - 1

\* C16 witness: the pacer has returned true after a buffer whose last frame
\* is shorter than 160 bytes.
PacerSentShortLastFrame ==
    /\ PacerDone /\ output.ret
    /\ Len(output.frames) >= 2
    /\ output.frames[Len(output.frames)].len < 160

\* The buffers whose playback ends in this step with the pacer returning
\* true: the one being paced, or an empty one (no frame to pace).
PlayedBuffers ==
    IF EndingBuffers = {} THEN {b \in TtsBuffers : MuLawLength(b) = 0}
    ELSE EndingBuffers

\* t + ceil(1000 * B / (2 * R) + 350), as one quotient rounded up.
CeilWindow(t, buf) ==
    Fin(t + CeilDiv(1000 * buf.bytes + 700 * buf.rate, 2 * buf.rate))

\* C17: when the pacer has returned true at instant t for a buffer of B PCM
\* bytes at header rate R, the invocation ends with ignoreUntil equal to
\* t + ceil(1000 * B / (2 * R) + 350) (no finite instant for R = 0, where the
\* quotient is none) and with inFlight false.
PlaybackSetsWindow ==
    [][(EndsReply /\ lastReply' = "streamed") =>
          /\ ~inFlight'
          /\ \E buf \in PlayedBuffers :
                IF buf.rate > 0 THEN ignoreUntil' = CeilWindow(now', buf)
                ELSE ~IsFinite(ignoreUntil')]_vars

\* C17 witness: an 8 kHz buffer of 320 bytes (20 ms) has just been played:
\* the window ends 370 ms from now and inFlight is false.
PlayedWindowIs370 ==
    lastReply = "streamed" /\ pipes = {} /\ ~inFlight /\ ignoreUntil = Fin(now + 370)

\* The mu-law bytes the pacer has sent.
TransmittedBytes == SumSeq([k \in 1..Len(output.frames) |-> output.frames[k].len])

Abs(x) == IF x < 0 THEN 0 - x ELSE x

\* C18: for every header rate R, the frames the pacer has sent when it
\* returns true last, at 8000 bytes per second, as long as the source
\* (B / (2 * R) seconds) to within one frame of 20 ms:
\* |sent / 8000 - B / (2 * R)| <= 0.02, with the denominators cleared.
PacedAtNativeRate ==
    (PacerDone /\ output.ret) =>
        Abs(TransmittedBytes * 2 * input.rate - 8000 * input.bytes)
            <= 320 * input.rate

\* The sign bit and the 7-bit magnitude code (~x & 0x7F) of a mu-law byte,
\* the byte with the other sign, and the round trip through the decoder and
\* the encoder.
SignBit(x) == x \div 128
MagCode(x) == (255 - x) % 128
OtherSign(x) == IF x >= 128 THEN x - 128 ELSE x + 128
RoundTrip(x) == LinearToMuLawSample(MuLawDecode(x))

\* The round trip of the byte of the same sign with the next magnitude code
\* has no smaller a magnitude code, and the code it gives is within one
\* step of the byte's own.
RoundTripMonotoneAndClose ==
    /\ MagCode(input.byte) < 127 =>
          MagCode(RoundTrip(input.byte - 1)) >= MagCode(output.byte)
    /\ Abs(MagCode(output.byte) - MagCode(input.byte)) <= 1

\* C19 as claimed: for every byte x, y = encode(decode(x)) has the sign bit
\* of x, the magnitude code of y is non-decreasing in that of x, and within
\* one step of it.
RoundTripKeepsSign ==
    (input.fn = "codec" /\ output.kind = "encoded") =>
        /\ SignBit(output.byte) = SignBit(input.byte)
        /\ RoundTripMonotoneAndClose

\* C19 as amended: the same, except that 0x7F (the negative zero, decoded to
\* the sample 0) comes back as 0xFF, with the other sign bit.
RoundTripKeepsSignButZero ==
    (input.fn = "codec" /\ output.kind = "encoded") =>
        /\ IF input.byte = 127 THEN output.byte = 255
           ELSE SignBit(output.byte) = SignBit(input.byte)
        /\ RoundTripMonotoneAndClose

\* C19 witness: 0xFB (magnitude code 4) comes back as 0xFA (code 5).
RoundTripMovesOneStep ==
    input.fn = "codec" /\ output.kind = "encoded" /\ input.byte = 251 /\ output.byte = 250

\* C20: the decoder gives every byte a sample in -32768..32767; the byte
\* with the other sign bit decodes to the negated sample; and the byte of
\* the same sign with the next magnitude code decodes to a sample of
\* strictly larger magnitude.
DecodeSymmetricIncreasing ==
    (input.fn = "codec" /\ output.kind \in {"decoded", "encoded"}) =>
        /\ output.sample \in -32768..32767
        /\ MuLawDecode(OtherSign(input.byte)) = 0 - output.sample
        /\ MagCode(input.byte) < 127 =>
              Abs(MuLawDecode(input.byte - 1)) > Abs(output.sample)

\* C20 witness: 0x00 has been decoded, to the most negative sample.
DecodedLoudestNegative ==
    input.fn = "codec" /\ output.kind = "decoded" /\ input.byte = 0 /\ output.sample = -32124

\* The frame handled in this step was sent to the streaming recognizer, or
\* went to the batch buffer (appended, or dispatched with the chunk).
FrameDelivered == sttSent' = sttSent + 1
FrameBuffered == pcmBytes' > pcmBytes \/ Dispatches

\* C29: a media frame with a payload that arrives after start and outside
\* the ignore window reaches exactly one consumer: the streaming recognizer
\* or the batch buffer, never both and never neither.
FrameHasOneConsumer ==
    [][(MediaArrives /\ lastFrame' # "empty" /\ ~NumLess(Fin(now), ignoreUntil)) =>
          /\ FrameDelivered \/ FrameBuffered
          /\ ~(FrameDelivered /\ FrameBuffered)]_vars

\* ---------------------------------------------------------------------------
\* Resamplers: resample8kTo16k and resample16kTo8k on buffers of 16-bit
\* samples.  A buffer is the sequence of its samples.
\* ---------------------------------------------------------------------------
MaxSamples == 3
MaxResamples == 2

Samples == {-32768, -3, 0, 2, 32767}
PcmBuffers == SeqsUpTo(Samples, MaxSamples)
ResampleCalls == [fn : {"resample"}, pcm : PcmBuffers]

\* Math.floor((s1 + s2) / 2); the mean of two 16-bit samples is in range, so
\* storing it in the Int16Array changes nothing.
FloorMean(s1, s2) == (s1 + s2) \div 2

\* The loop fills the pairs of all samples but the last with the sample and
\* its mean with the next one; the last two outputs are never interpolated
\* and stay 0 as allocated.
Resample8kTo16kNoTail(pcm) ==
    [k \in 1..(2 * Len(pcm)) |->
        IF k > 2 * Len(pcm) - 2 THEN 0
        ELSE IF k % 2 = 1 THEN pcm[(k + 1) \div 2]
        ELSE FloorMean(pcm[k \div 2], pcm[k \div 2 + 1])]

\* resample8kTo16k: output 2i is sample i, output 2i+1 the floored mean of
\* samples i and i+1; the last two outputs both repeat the last sample.
Resample8kTo16k(pcm) ==
    [k \in 1..(2 * Len(pcm)) |->
        IF k > 2 * Len(pcm) - 2 THEN pcm[Len(pcm)]
        ELSE IF k % 2 = 1 THEN pcm[(k + 1) \div 2]
        ELSE FloorMean(pcm[k \div 2], pcm[k \div 2 + 1])]

\* resample16kTo8k: floor(n / 2) outputs, each the floored mean of a pair.
Resample16kTo8k(pcm) ==
    [k \in 1..(Len(pcm) \div 2) |-> FloorMean(pcm[2 * k - 1], pcm[2 * k])]

ResampleInit ==
    /\ BridgeInit
    /\ LockInit
    /\ ServerInit
    /\ input \in ResampleCalls
    /\ output = NoResult

\* The buffer the next resampler is applied to: the caller's, or the one the
\* previous resampler returned.
CurrentPcm == IF output = NoResult THEN input.pcm ELSE output.samples
Applied == IF output = NoResult THEN << >> ELSE output.applied

Upsamples ==
    /\ input.fn = "resample"
    /\ Len(Applied) < MaxResamples
    /\ output' = [kind |-> "pcm", applied |-> Append(Applied, "resample8kTo16k"),
                  samples |-> Resample8kTo16k(CurrentPcm)]
    /\ UNCHANGED << bridgeVars, lockVars, serverVars, input >>

Downsamples ==
    /\ input.fn = "resample"
    /\ Len(Applied) < MaxResamples
    /\ output' = [kind |-> "pcm", applied |-> Append(Applied, "resample16kTo8k"),
                  samples |-> Resample16kTo8k(CurrentPcm)]
    /\ UNCHANGED << bridgeVars, lockVars, serverVars, input >>

ResampleNext == Upsamples \/ Downsamples

ResampleSpec == ResampleInit /\ [][ResampleNext]_vars

\* The output is resample16kTo8k(resample8kTo16k(input)).
RoundTripped ==
    /\ input.fn = "resample"
    /\ output # NoResult
    /\ output.applied = << "resample8kTo16k", "resample16kTo8k" >>

Between(x, a, b) == (a <= x /\ x <= b) \/ (b <= x /\ x <= a)

\* C21: for a buffer of n >= 1 samples, downsampling its upsampling gives n
\* samples again, the last equal to the buffer's last, and sample i < n-1
\* between the buffer's samples i and i+1 inclusive.
ResampleRoundTripBounded ==
    (RoundTripped /\ Len(input.pcm) >= 1) =>
        /\ Len(output.samples) = Len(input.pcm)
        /\ output.samples[Len(input.pcm)] = input.pcm[Len(input.pcm)]
        /\ \A i \in 1..(Len(input.pcm) - 1) :
               Between(output.samples[i], input.pcm[i], input.pcm[i + 1])

\* A round trip that changed a sample: the approximation is not the identity.
RoundTripSmoothed ==
    /\ RoundTripped
    /\ Len(input.pcm) >= 2
    /\ output.samples # input.pcm
    /\ output.samples[1] # input.pcm[1]
    /\ output.samples[1] # input.pcm[2]

\* ---------------------------------------------------------------------------
\* Language heuristics of the lock-free bridge: normalizeLangCode,
\* detectLanguageLocal and resolveFinalLang.  A string is the sequence of its
\* UTF-16 code units; the empty sequence also stands for a missing (falsy)
\* tag.
\* ---------------------------------------------------------------------------
MaxWords == 2

\* xx-IN for a two-letter prefix xx
IndianLocale(prefix) == prefix \o << 45, 73, 78 >>

\* The prefixes normalizeLangCode tests, in its order: gu, hi, en, bn, kn, ml, mr, od, pa, ta, te
KnownPrefixes == <<
    << 103, 117 >>,
    << 104, 105 >>,
    << 101, 110 >>,
    << 98, 110 >>,
    << 107, 110 >>,
    << 109, 108 >>,
    << 109, 114 >>,
    << 111, 100 >>,
    << 112, 97 >>,
    << 116, 97 >>,
    << 116, 101 >> >>

\* String.prototype.toLowerCase on the code units that occur: A-Z
LowerUnit(c) == IF c >= 65 /\ c <= 90 THEN c + 32 ELSE c
ToLowerCase(s) == [i \in 1..Len(s) |-> LowerUnit(s[i])]

StartsWith(s, p) == Len(s) >= Len(p) /\ SubSeq(s, 1, Len(p)) = p

normalizeLangCode(code) ==
    IF code = << >> THEN UNKNOWN
    ELSE LET lc == ToLowerCase(code)
             hits == {i \in 1..Len(KnownPrefixes) : StartsWith(lc, KnownPrefixes[i])}
         IN  IF hits # {}
             THEN IndianLocale(KnownPrefixes[CHOOSE i \in hits : \A j \in hits : i <= j])
             ELSE code

\* /[\u0A80-\u0AFF]/.test(text) and /[\u0900-\u097F]/.test(text)
HasGujarati(text) == \E i \in 1..Len(text) : text[i] >= 2688 /\ text[i] <= 2815
HasDevanagari(text) == \E i \in 1..Len(text) : text[i] >= 2304 /\ text[i] <= 2431

\* \w of a regular expression without the u flag: [A-Za-z0-9_]
WordUnit(c) ==
    \/ c >= 48 /\ c <= 57
    \/ c >= 65 /\ c <= 90
    \/ c = 95
    \/ c >= 97 /\ c <= 122

\* /\b(w1|w2|...)\b/i.test(text): some word of the list occurs in the text,
\* in any letter case, with no word character right before or right after it.
WordListTest(words, text) ==
    \E w \in words : \E p \in 1..(Len(text) - Len(w) + 1) :
        /\ ToLowerCase(SubSeq(text, p, p + Len(w) - 1)) = w
        /\ p = 1 \/ ~WordUnit(text[p - 1])
        /\ p + Len(w) - 1 = Len(text) \/ ~WordUnit(text[p + Len(w)])

\* kem, cho, maja, majama, tame, tamne, shu, su, mane, hu, maru, bhai, barabar, krupaya, dhanyavaad
romanGujaratiRe == {
    << 107, 101, 109 >>,
    << 99, 104, 111 >>,
    << 109, 97, 106, 97 >>,
    << 109, 97, 106, 97, 109, 97 >>,
    << 116, 97, 109, 101 >>,
    << 116, 97, 109, 110, 101 >>,
    << 115, 104, 117 >>,
    << 115, 117 >>,
    << 109, 97, 110, 101 >>,
    << 104, 117 >>,
    << 109, 97, 114, 117 >>,
    << 98, 104, 97, 105 >>,
    << 98, 97, 114, 97, 98, 97, 114 >>,
    << 107, 114, 117, 112, 97, 121, 97 >>,
    << 100, 104, 97, 110, 121, 97, 118, 97, 97, 100 >> }

\* aap, aapka, kaise, naam, namaste, shukriya, haan, nahi, kya, kyu,
\* kyun, theek, thik, bahut, kripya, dhanyavad
romanHindiRe == {
    << 97, 97, 112 >>,
    << 97, 97, 112, 107, 97 >>,
    << 107, 97, 105, 115, 101 >>,
    << 110, 97, 97, 109 >>,
    << 110, 97, 109, 97, 115, 116, 101 >>,
    << 115, 104, 117, 107, 114, 105, 121, 97 >>,
    << 104, 97, 97, 110 >>,
    << 110, 97, 104, 105 >>,
    << 107, 121, 97 >>,
    << 107, 121, 117 >>,
    << 107, 121, 117, 110 >>,
    << 116, 104, 101, 101, 107 >>,
    << 116, 104, 105, 107 >>,
    << 98, 97, 104, 117, 116 >>,
    << 107, 114, 105, 112, 121, 97 >>,
    << 100, 104, 97, 110, 121, 97, 118, 97, 100 >> }

\* text.trim().length, for the white space that occurs: the space
RECURSIVE LeadingSpaces(_)
LeadingSpaces(s) == IF s # << >> /\ s[1] = 32 THEN 1 + LeadingSpaces(Tail(s)) ELSE 0

RECURSIVE TrailingSpaces(_)
TrailingSpaces(s) ==
    IF s # << >> /\ s[Len(s)] = 32 THEN 1 + TrailingSpaces(SubSeq(s, 1, Len(s) - 1)) ELSE 0

TrimmedLength(s) ==
    IF LeadingSpaces(s) = Len(s) THEN 0 ELSE Len(s) - LeadingSpaces(s) - TrailingSpaces(s)

\* What franc may answer: the three codes the detector looks for, another
\* language, or undetermined.
FrancLangs == {"guj", "hin", "eng", "pan", "und"}

\* The detector without its minimum length: franc decides for short texts too.
DetectWithoutMinLength(text, francLang) ==
    IF TrimmedLength(text) = 0 THEN EN_IN
    ELSE IF HasGujarati(text) THEN GU_IN
    ELSE IF HasDevanagari(text) THEN HI_IN
    ELSE IF francLang = "guj" THEN GU_IN
    ELSE IF francLang = "hin" THEN HI_IN
    ELSE EN_IN

detectLanguageLocal(text, francLang) ==
    IF TrimmedLength(text) = 0 THEN EN_IN
    ELSE IF HasGujarati(text) THEN GU_IN
    ELSE IF HasDevanagari(text) THEN HI_IN
    ELSE IF TrimmedLength(text) < 6 THEN EN_IN
    ELSE IF francLang = "guj" THEN GU_IN
    ELSE IF francLang = "hin" THEN HI_IN
    ELSE EN_IN

\* The recognizer's tag examined before the script of the transcript.
ResolveTagFirst(sttLangCode, transcript, francLang) ==
    LET lang == normalizeLangCode(sttLangCode)
    IN  IF lang = EN_IN /\ WordListTest(romanGujaratiRe, transcript) THEN GU_IN
        ELSE IF lang = EN_IN /\ WordListTest(romanHindiRe, transcript) THEN HI_IN
        ELSE IF lang = << >> \/ lang = UNKNOWN
             THEN detectLanguageLocal(transcript, francLang)
        ELSE IF HasGujarati(transcript) THEN GU_IN
        ELSE IF HasDevanagari(transcript) THEN HI_IN
        ELSE lang

resolveFinalLang(sttLangCode, transcript, francLang) ==
    IF HasGujarati(transcript) THEN GU_IN
    ELSE IF HasDevanagari(transcript) THEN HI_IN
    ELSE LET lang == normalizeLangCode(sttLangCode)
         IN  IF lang = EN_IN /\ WordListTest(romanGujaratiRe, transcript) THEN GU_IN
             ELSE IF lang = EN_IN /\ WordListTest(romanHindiRe, transcript) THEN HI_IN
             ELSE IF lang = << >> \/ lang = UNKNOWN
                  THEN detectLanguageLocal(transcript, francLang)
             ELSE lang

\* Recognizer tags: missing, "unknown", "Unknown", "gu-IN", "hi-IN", "en-IN",
\* "EN", "ta-IN", "od-IN", "or-IN", "fr-FR"
SttLangCodes == {
    << >>,
    << 117, 110, 107, 110, 111, 119, 110 >>,
    << 85, 110, 107, 110, 111, 119, 110 >>,
    << 103, 117, 45, 73, 78 >>,
    << 104, 105, 45, 73, 78 >>,
    << 101, 110, 45, 73, 78 >>,
    << 69, 78 >>,
    << 116, 97, 45, 73, 78 >>,
    << 111, 100, 45, 73, 78 >>,
    << 111, 114, 45, 73, 78 >>,
    << 102, 114, 45, 70, 82 >> }

\* Words of a transcript: "kem", "Kem", "kya", "kyare", "hello", "thanks",
\* a word in Gujarati script, a word in Devanagari script, and a space.
Words == {
    << 107, 101, 109 >>,
    << 75, 101, 109 >>,
    << 107, 121, 97 >>,
    << 107, 121, 97, 114, 101 >>,
    << 104, 101, 108, 108, 111 >>,
    << 116, 104, 97, 110, 107, 115 >>,
    << 2709, 2759, 2734 >>,
    << 2325, 2381, 2351, 2366 >>,
    << 32 >> }

RECURSIVE JoinWords(_)
JoinWords(ws) ==
    IF ws = << >> THEN << >>
    ELSE IF Len(ws) = 1 THEN ws[1]
    ELSE ws[1] \o << 32 >> \o JoinWords(Tail(ws))

Transcripts == {JoinWords(ws) : ws \in SeqsUpTo(Words, MaxWords)}

ResolverCalls ==
    [fn : {"resolveFinalLang"}, sttLangCode : SttLangCodes,
     transcript : Transcripts, francLang : FrancLangs]

ResolverInit ==
    /\ BridgeInit
    /\ LockInit
    /\ ServerInit
    /\ input \in ResolverCalls
    /\ output = NoResult

ResolveFinalLang ==
    /\ input.fn = "resolveFinalLang"
    /\ output = NoResult
    /\ output' = [kind |-> "lang",
                  lang |-> resolveFinalLang(input.sttLangCode, input.transcript,
                                            input.francLang)]
    /\ UNCHANGED << bridgeVars, lockVars, serverVars, input >>

ResolverNext == ResolveFinalLang

ResolverSpec == ResolverInit /\ [][ResolverNext]_vars

Resolved == input.fn = "resolveFinalLang" /\ output # NoResult

\* C23: in the lock-free resolver a transcript with a Gujarati-block code
\* point resolves to gu-IN, and one with a Devanagari-block code point and no
\* Gujarati one to hi-IN, whatever the recognizer's tag.
ScriptWinsOverTag ==
    Resolved =>
        /\ HasGujarati(input.transcript) => output.lang = GU_IN
        /\ (HasDevanagari(input.transcript) /\ ~HasGujarati(input.transcript)) =>
               output.lang = HI_IN

\* A Devanagari transcript tagged as Tamil resolved to hi-IN.
DevanagariBeatsTamilTag ==
    /\ Resolved
    /\ normalizeLangCode(input.sttLangCode) = IndianLocale(<< 116, 97 >>)
    /\ HasDevanagari(input.transcript)
    /\ ~HasGujarati(input.transcript)
    /\ output.lang = HI_IN

\* gu-IN, hi-IN, en-IN, bn-IN, kn-IN, ml-IN, mr-IN, od-IN, pa-IN, ta-IN, te-IN
FixedLocales == {IndianLocale(KnownPrefixes[i]) : i \in 1..Len(KnownPrefixes)}

\* C25: for every recognizer tag and every transcript the resolver returns
\* one of the fixed locale codes, never an empty value and never "unknown".
ResultIsFixedLocale ==
    Resolved => output.lang \in FixedLocales

\* The transcript has no Gujarati and no Devanagari code point.
LatinOnly == ~HasGujarati(input.transcript) /\ ~HasDevanagari(input.transcript)
TagLocale == normalizeLangCode(input.sttLangCode)
GujaratiMarker == WordListTest(romanGujaratiRe, input.transcript)
HindiMarker == WordListTest(romanHindiRe, input.transcript)
TagUnknown == input.sttLangCode = << >> \/ input.sttLangCode = UNKNOWN

\* The tag names a known locale other than en-IN: that locale is the result.
\* The tag is missing or "unknown": the local detector's result, en-IN for
\* every transcript of trimmed length below 6.
TagAndDetectorRules ==
    /\ (TagLocale \in FixedLocales \ {EN_IN}) => output.lang = TagLocale
    /\ TagUnknown =>
          /\ output.lang \in {GU_IN, HI_IN, EN_IN}
          /\ output.lang = GU_IN => input.francLang = "guj"
          /\ output.lang = HI_IN => input.francLang = "hin"
          /\ TrimmedLength(input.transcript) < 6 => output.lang = EN_IN

\* C30 as stated: for a transcript without Gujarati or Devanagari code
\* points, a tag normalizing to en-IN with a romanized Gujarati marker gives
\* gu-IN and with a romanized Hindi marker hi-IN; any other known tag gives
\* its locale; a missing or unknown tag gives the detector's result.
MarkerWordsDecide ==
    (Resolved /\ LatinOnly) =>
        /\ (TagLocale = EN_IN /\ GujaratiMarker) => output.lang = GU_IN
        /\ (TagLocale = EN_IN /\ HindiMarker) => output.lang = HI_IN
        /\ TagAndDetectorRules

\* C30, amended: the Hindi marker gives hi-IN only when no Gujarati marker
\* occurs in the transcript; with both, the result is gu-IN.
MarkerWordsDecideGujaratiFirst ==
    (Resolved /\ LatinOnly) =>
        /\ (TagLocale = EN_IN /\ GujaratiMarker) => output.lang = GU_IN
        /\ (TagLocale = EN_IN /\ HindiMarker /\ ~GujaratiMarker) => output.lang = HI_IN
        /\ TagAndDetectorRules

\* An English-tagged transcript with markers of both languages resolved to
\* gu-IN.
BothMarkersGaveGujarati ==
    /\ Resolved
    /\ LatinOnly
    /\ TagLocale = EN_IN
    /\ GujaratiMarker
    /\ HindiMarker
    /\ output.lang = GU_IN

\* ---------------------------------------------------------------------------
\* The bridge of final4.js: its language heuristics with the language lock,
\* and the recognizer message handler of each connection.
\* ---------------------------------------------------------------------------
MaxResolves == 3

\* LANG_LOCK_STRICTNESS as parseInt may give it; -1 stands for every value
\* that is none of 0, 1 and >= 2 (a negative number, NaN).
Strictnesses == {-1, 0, 1, 2, 3}

\* As normalizeLangCode above, and a tag starting with "or" is od-IN too.
normalizeLangCodeFinal4(code) ==
    IF code # << >> /\ StartsWith(ToLowerCase(code), << 111, 114 >>)
    THEN IndianLocale(<< 111, 100 >>)
    ELSE normalizeLangCode(code)

\* As detectLanguageLocal above, and franc's "pan" is pa-IN.
detectLanguageLocalFinal4(text, francLang) ==
    IF TrimmedLength(text) = 0 THEN EN_IN
    ELSE IF HasGujarati(text) THEN GU_IN
    ELSE IF HasDevanagari(text) THEN HI_IN
    ELSE IF TrimmedLength(text) < 6 THEN EN_IN
    ELSE IF francLang = "guj" THEN GU_IN
    ELSE IF francLang = "hin" THEN HI_IN
    ELSE IF francLang = "pan" THEN IndianLocale(<< 112, 97 >>)
    ELSE EN_IN

\* The local lang of resolveFinalLang before the lock is applied: each test
\* overwrites what the one before it assigned.
FreshLang(sttLangCode, transcript, francLang) ==
    LET tagged == normalizeLangCodeFinal4(sttLangCode)
        afterGu == IF HasGujarati(transcript) THEN GU_IN ELSE tagged
        afterHi == IF HasDevanagari(transcript) THEN HI_IN ELSE afterGu
        romanGu == IF afterHi = EN_IN /\ WordListTest(romanGujaratiRe, transcript)
                   THEN GU_IN ELSE afterHi
        romanHi == IF afterHi = EN_IN /\ WordListTest(romanHindiRe, transcript)
                   THEN HI_IN ELSE romanGu
    IN  IF romanHi = << >> \/ romanHi = UNKNOWN
        THEN detectLanguageLocalFinal4(transcript, francLang)
        ELSE romanHi

\* The lock applied at strictness >= 2 as at 0 and 1.
LockNeverHolds(strictness, last, sttLangCode, lang) ==
    IF strictness >= 0 THEN lang ELSE last

\* The lock applied at strictness 1 as at >= 2.
LockHoldsAtOne(strictness, last, sttLangCode, lang) ==
    IF strictness = 0 THEN lang
    ELSE IF strictness >= 1
         THEN IF lang = normalizeLangCodeFinal4(sttLangCode) THEN lang ELSE last
    ELSE last

\* lastConfirmedLang after the lock is applied to the fresh lang.
LockedLang(strictness, last, sttLangCode, lang) ==
    IF strictness = 0 THEN lang
    ELSE IF strictness = 1 THEN lang
    ELSE IF strictness >= 2
         THEN IF lang = normalizeLangCodeFinal4(sttLangCode) THEN lang ELSE last
    ELSE last

\* Recognizer messages: the tag is msg.data.language_code || "unknown", the
\* transcript is trimmed and not empty, and franc has an answer where the
\* detector asks it.
LockTags == {UNKNOWN, HI_IN, EN_IN}
LockTranscripts == {<< 2325, 2381, 2351, 2366 >>, << 107, 101, 109, 32, 107, 121, 97 >>}
FrancAsked(sttLangCode, transcript) ==
    /\ normalizeLangCodeFinal4(sttLangCode) = UNKNOWN
    /\ ~HasGujarati(transcript)
    /\ ~HasDevanagari(transcript)
    /\ TrimmedLength(transcript) >= 6
Utterances ==
    {u \in [sttLangCode : LockTags, transcript : LockTranscripts,
            francLang : {"hin", "eng", "none"}] :
        u.francLang # "none" <=> FrancAsked(u.sttLangCode, u.transcript)}

Final4Calls == [fn : {"final4"}, LANG_LOCK_STRICTNESS : Strictnesses]

Final4Init ==
    /\ BridgeInit
    /\ LockInit
    /\ ServerInit
    /\ input \in Final4Calls
    /\ output = NoResult

\* twilioWs "message" with event "start": callSid = evt.start?.callSid
Final4Start(c) ==
    /\ input.fn = "final4"
    /\ connCallSid[c] = NULL
    /\ connCallSid' = [connCallSid EXCEPT ![c] = "CA1"]
    /\ UNCHANGED << bridgeVars, fnVars, serverVars, lastConfirmedLang, replying, resolutions >>

\* stt "message" with a transcript, up to its first await: the language is
\* resolved, then the message is dropped when the call has no callSid yet or
\* a reply is under way, and otherwise the reply is started.
SttMessage(c, u) ==
    /\ input.fn = "final4"
    /\ Len(resolutions) < MaxResolves
    /\ LET lang == FreshLang(u.sttLangCode, u.transcript, u.francLang)
           finalLang == LockedLang(input.LANG_LOCK_STRICTNESS, lastConfirmedLang,
                                   u.sttLangCode, lang)
       IN  /\ lastConfirmedLang' = finalLang
           /\ resolutions' = Append(resolutions,
                  [call |-> c, sttLangCode |-> u.sttLangCode,
                   transcript |-> u.transcript, francLang |-> u.francLang,
                   finalLang |-> finalLang])
    /\ replying' = IF connCallSid[c] # NULL /\ ~replying[c]
                   THEN [replying EXCEPT ![c] = TRUE]
                   ELSE replying
    /\ UNCHANGED << bridgeVars, fnVars, serverVars, connCallSid >>

\* The reply of the message handler runs to its end, played or failed:
\* finally { replying = false }
ReplyEnds(c) ==
    /\ input.fn = "final4"
    /\ replying[c]
    /\ replying' = [replying EXCEPT ![c] = FALSE]
    /\ UNCHANGED << bridgeVars, fnVars, serverVars, lastConfirmedLang, connCallSid, resolutions >>

Final4Next ==
    \/ \E c \in Calls : Final4Start(c)
    \/ \E c \in Calls, u \in Utterances : SttMessage(c, u)
    \/ \E c \in Calls : ReplyEnds(c)

Final4Spec == Final4Init /\ [][Final4Next]_vars

\* The resolutions of final4.js so far, and what lastConfirmedLang was when
\* the i-th of them began.
Strictness == input.LANG_LOCK_STRICTNESS
Resolutions == IF input.fn = "final4" THEN resolutions ELSE << >>
LangBefore(i) == IF i = 1 THEN EN_IN ELSE resolutions[i - 1].finalLang
FreshOf(r) == FreshLang(r.sttLangCode, r.transcript, r.francLang)
SameUtterance(r, q) ==
    /\ r.sttLangCode = q.sttLangCode
    /\ r.transcript = q.transcript
    /\ r.francLang = q.francLang

\* C22 as stated: the locking resolver returns the same locale for the same
\* transcript and recognizer tag on every call, at every strictness and
\* whatever was resolved before.
LockingResolverDeterministic ==
    \A i, j \in 1..Len(Resolutions) :
        SameUtterance(resolutions[i], resolutions[j]) =>
            resolutions[i].finalLang = resolutions[j].finalLang

\* C22, amended: the same holds at every strictness below 2; at 2 and above
\* the result may be the language confirmed before.
LockingResolverDeterministicBelowTwo ==
    (input.fn = "final4" /\ Strictness < 2) => LockingResolverDeterministic

\* At strictness 0 or 1 the same utterance was resolved twice, with another
\* language confirmed in between.
SameUtteranceResolvedTwice ==
    /\ input.fn = "final4"
    /\ Strictness \in {0, 1}
    /\ Len(resolutions) = 3
    /\ SameUtterance(resolutions[1], resolutions[3])
    /\ resolutions[2].finalLang # resolutions[1].finalLang
    /\ resolutions[3].finalLang = resolutions[1].finalLang

OnlyDevanagari(text) ==
    text # << >> /\ \A i \in 1..Len(text) : text[i] >= 2304 /\ text[i] <= 2431
OnlyGujarati(text) ==
    text # << >> /\ \A i \in 1..Len(text) : text[i] >= 2688 /\ text[i] <= 2815

\* C24: in the locking resolver a transcript of Devanagari code points only
\* resolves to hi-IN, and one of Gujarati code points only to gu-IN, whatever
\* the tag, the strictness and the utterances before.
ScriptWinsOverLock ==
    \A i \in 1..Len(Resolutions) :
        /\ OnlyDevanagari(resolutions[i].transcript) => resolutions[i].finalLang = HI_IN
        /\ OnlyGujarati(resolutions[i].transcript) => resolutions[i].finalLang = GU_IN

\* C26: at strictness 0 the fresh language of every utterance replaces
\* lastConfirmedLang; at strictness >= 2 it does so only when it equals the
\* normalized recognizer tag, and lastConfirmedLang keeps its value
\* otherwise; the resolver always returns lastConfirmedLang.
LockStrictnessRule ==
    /\ \A i \in 1..Len(Resolutions) :
          LET r == resolutions[i]
          IN  /\ Strictness = 0 => r.finalLang = FreshOf(r)
              /\ Strictness >= 2 =>
                    r.finalLang = IF FreshOf(r) = normalizeLangCodeFinal4(r.sttLangCode)
                                  THEN FreshOf(r)
                                  ELSE LangBefore(i)
    /\ Resolutions # << >> => lastConfirmedLang = resolutions[Len(resolutions)].finalLang

\* At strictness >= 2 the lock kept a confirmed hi-IN against a fresh
\* language that differs from it and from the tag.
LockKeptConfirmedLang ==
    /\ input.fn = "final4"
    /\ Strictness >= 2
    /\ Len(resolutions) >= 2
    /\ LangBefore(Len(resolutions)) = HI_IN
    /\ FreshOf(resolutions[Len(resolutions)]) = EN_IN
    /\ lastConfirmedLang = HI_IN

\* What the resolver returns for the utterances of one call when no other
\* call speaks: the lock starts at en-IN and sees these utterances only.
RECURSIVE AloneResults(_, _)
AloneResults(entries, last) ==
    IF entries = << >> THEN << >>
    ELSE LET r == Head(entries)
             finalLang == LockedLang(Strictness, last, r.sttLangCode, FreshOf(r))
         IN  << finalLang >> \o AloneResults(Tail(entries), finalLang)

EntriesOf(c) == SelectSeq(Resolutions, LAMBDA r : r.call = c)
ResultsOf(c) == [i \in 1..Len(EntriesOf(c)) |-> EntriesOf(c)[i].finalLang]

\* C27: the locales resolved for the utterances of a call are the same
\* whatever utterances arrive on another call at the same time.
SessionsIndependent ==
    \A c \in Calls : ResultsOf(c) = AloneResults(EntriesOf(c), EN_IN)

\* A message of call c reaches the handler while the call's reply is under
\* way, and is dropped.
DiscardedWhileReplying(c) ==
    /\ input.fn = "final4"
    /\ connCallSid[c] # NULL
    /\ replying[c]
    /\ Len(resolutions') = Len(resolutions) + 1
    /\ resolutions'[Len(resolutions')].call = c

\* C28: an utterance dropped because a reply is under way changes no session
\* state: the in-flight flag and the confirmed language stay as they were.
DiscardChangesNothing ==
    [][\A c \in Calls :
          DiscardedWhileReplying(c) =>
              /\ replying' = replying
              /\ connCallSid' = connCallSid
              /\ lastConfirmedLang' = lastConfirmedLang]_vars

\* C32: a final transcript, from the streaming or the batch recognizer, that
\* reaches the session while the clock is earlier than ignoreUntil starts no
\* pipeline invocation and leaves inFlight as it was.
TranscriptInWindowDropped ==
    [][(ArrivingFinals # {} /\ NumLess(Fin(now), ignoreUntil)) =>
          /\ ~StartsReply
          /\ pipes' = pipes
          /\ inFlight' = inFlight]_vars

\* A final transcript has just been dropped inside the window left by a
\* reply that was played, with no invocation in progress.
TranscriptArrivedInWindow ==
    /\ lastReply = "ignored"
    /\ NumLess(Fin(now), ignoreUntil)
    /\ ~inFlight
    /\ pipes = {}

\* C33: after any reply the ignore window expires: whatever buffer the
\* session has accepted from the synthesizer, ignoreUntil is an instant the
\* clock reaches, never Infinity.
WindowAlwaysExpires == ignoreUntil # INF

\* a <= b as the runtime compares numbers.
NumLeq(a, b) ==
    IF a = NAN \/ b = NAN THEN FALSE
    ELSE a = b \/ NumLess(a, b)

\* state.ignoreUntil || 0, the value the two tests of the window read.
WindowRead(x) == IF x = NAN THEN Fin(0) ELSE x

\* C34: ignoreUntil never decreases: every assignment leaves the window's
\* end at least as late as it was.
WindowNeverDecreases ==
    [][NumLeq(WindowRead(ignoreUntil), WindowRead(ignoreUntil'))]_vars

\* C35: once the stop event has been received no pipeline invocation is
\* started.
NoReplyAfterStop ==
    [][phase = "stopped" => ~StartsReply]_vars

\* ---------------------------------------------------------------------------
\* mulawDecodeSample of final4.js and of server.js, one byte at a time.
\* ---------------------------------------------------------------------------
MULAW_MAX == 8191
MULAW_BIAS == 33

\* ((mantissa << 3) + MULAW_BIAS) << (exponent + 2), cut at MULAW_MAX
MulawSample(exponent, mantissa) ==
    LET sample == (mantissa * 8 + MULAW_BIAS) * Pow2(exponent + 2)
    IN  IF sample > MULAW_MAX THEN MULAW_MAX ELSE sample

\* final4.js: muLawByte = ~muLawByte & 0xff, then the fields of that byte.
mulawDecodeSampleFinal4(muLawByte) ==
    LET inverted == 255 - muLawByte
        sign == IF (inverted \div 128) % 2 = 1 THEN -1 ELSE 1
        exponent == (inverted \div 16) % 8
        mantissa == inverted % 16
    IN  sign * MulawSample(exponent, mantissa)

\* server.js: muLawByte = ~muLawByte, a negative number; the masks 0x80,
\* 0x70 and 0x0F read bits 7, 6..4 and 3..0 of its two's complement.
mulawDecodeSampleServer(muLawByte) ==
    LET inverted == 0 - muLawByte - 1
        sign == IF (inverted \div 128) % 2 = 1 THEN -1 ELSE 1
        exponent == (inverted \div 16) % 8
        mantissa == inverted % 16
    IN  sign * MulawSample(exponent, mantissa)

DecoderInit ==
    /\ BridgeInit
    /\ LockInit
    /\ ServerInit
    /\ input \in [fn : {"mulawDecodeSample"}, byte : Bytes]
    /\ output = NoResult

\* muLawToPCM16 of final4.js decodes the byte.
DecodesFinal4 ==
    /\ input.fn = "mulawDecodeSample"
    /\ output = NoResult
    /\ output' = [kind |-> "final4", final4 |-> mulawDecodeSampleFinal4(input.byte)]
    /\ UNCHANGED << bridgeVars, lockVars, serverVars, input >>

\* muLawToPCM16 of server.js decodes the same byte.
DecodesServer ==
    /\ input.fn = "mulawDecodeSample"
    /\ output.kind = "final4"
    /\ output' = [kind |-> "both", final4 |-> output.final4,
                  server |-> mulawDecodeSampleServer(input.byte)]
    /\ UNCHANGED << bridgeVars, lockVars, serverVars, input >>

DecoderNext ==
    \/ DecodesFinal4
    \/ DecodesServer

DecoderSpec == DecoderInit /\ [][DecoderNext]_vars

\* C38: the two decoders give every byte the same sample, in -32768..32767,
\* and the byte of the same sign with the next magnitude code decodes to a
\* sample of strictly larger magnitude: nothing is cut below the 16-bit
\* range.
DecodersClipAt16BitsOnly ==
    (input.fn = "mulawDecodeSample" /\ output.kind = "both") =>
        /\ output.final4 \in -32768..32767
        /\ output.server = output.final4
        /\ MagCode(input.byte) < 127 =>
              /\ Abs(mulawDecodeSampleFinal4(input.byte - 1)) > Abs(output.final4)
              /\ Abs(mulawDecodeSampleServer(input.byte - 1)) > Abs(output.server)

\* ---------------------------------------------------------------------------
\* A connection of server.js: the handler awaits the recognizer connection,
\* then registers the recognizer's and the call socket's listeners.
\* ---------------------------------------------------------------------------
MaxMedia == 3

ServerCalls == [fn : {"server"}]

ServerSpecInit ==
    /\ BridgeInit
    /\ LockInit
    /\ ServerInit
    /\ input \in ServerCalls
    /\ output = NoResult

serverFrame == << bridgeVars, fnVars, lockVars >>

\* speechToTextStreaming.connect returns: stt.on("open"), stt.on("message"),
\* twilioWs.on("message") and twilioWs.on("close") are registered.
ConnectReturns ==
    /\ input.fn = "server"
    /\ handlerPc = "connecting"
    /\ handlerPc' = "listening"
    /\ stt' = "opening"
    /\ UNCHANGED << serverFrame, twilioOpen, sttOpen, buffer, delivered, handled,
                    forwarded, openedAt >>

\* connect throws: twilioWs.close() and the handler returns.
ConnectFails ==
    /\ input.fn = "server"
    /\ handlerPc = "connecting"
    /\ handlerPc' = "failed"
    /\ twilioOpen' = FALSE
    /\ UNCHANGED << serverFrame, stt, sttOpen, buffer, delivered, handled,
                    forwarded, openedAt >>

\* The frames of a buffer in the order pop() would take them.
FlushNewestFirst(events) == [i \in 1..Len(events) |-> events[Len(events) + 1 - i]]

\* while (buffer.length) buffer.shift(): the events in arrival order
FlushOrder(events) == events

\* handleMediaEvent for a sequence of events, the recognizer socket being
\* open: an event without payload is skipped, the others are transcribed.
Transcribed(events) ==
    LET withPayload == SelectSeq(events, LAMBDA e : e.payload)
    IN  [i \in 1..Len(withPayload) |-> withPayload[i].frame]

\* stt "open": sttOpen = true and the buffer is flushed.
ServerSttOpens ==
    /\ input.fn = "server"
    /\ stt = "opening"
    /\ stt' = "open"
    /\ sttOpen' = TRUE
    /\ forwarded' = forwarded \o Transcribed(FlushOrder(buffer))
    /\ buffer' = << >>
    /\ openedAt' = Len(handled)
    /\ UNCHANGED << serverFrame, handlerPc, twilioOpen, delivered, handled >>

\* The recognizer's end closes the connection, or it fails: the listeners
\* for "close" and "error" only log.
ServerSttCloses ==
    /\ input.fn = "server"
    /\ stt \in {"opening", "open"}
    /\ stt' = "closed"
    /\ UNCHANGED << serverFrame, handlerPc, twilioOpen, sttOpen, buffer,
                    delivered, handled, forwarded, openedAt >>

\* The call socket emits a media event.  Before the listener is registered
\* nothing receives it.  The listener pushes it to the buffer while sttOpen
\* is false and calls handleMediaEvent otherwise, where stt.transcribe throws
\* on a socket that is not open and the error is caught.
ServerMedia(hasPayload) ==
    /\ input.fn = "server"
    /\ twilioOpen
    /\ delivered < MaxMedia
    /\ delivered' = delivered + 1
    /\ LET evt == [frame |-> delivered + 1, payload |-> hasPayload]
       IN  IF handlerPc # "listening"
           THEN UNCHANGED << handled, buffer, forwarded >>
           ELSE /\ handled' = Append(handled, evt)
                /\ IF ~sttOpen
                   THEN /\ buffer' = Append(buffer, evt)
                        /\ UNCHANGED forwarded
                   ELSE /\ forwarded' = IF stt = "open"
                                        THEN forwarded \o Transcribed(<< evt >>)
                                        ELSE forwarded
                        /\ UNCHANGED buffer
    /\ UNCHANGED << serverFrame, handlerPc, twilioOpen, stt, sttOpen, openedAt >>

\* The call socket emits the stop event: stt.close() and twilioWs.close().
\* Before the listener is registered nothing receives it.
ServerStop ==
    /\ input.fn = "server"
    /\ twilioOpen
    /\ IF handlerPc = "listening"
       THEN /\ stt' = "closed"
            /\ twilioOpen' = FALSE
       ELSE UNCHANGED << stt, twilioOpen >>
    /\ UNCHANGED << serverFrame, handlerPc, sttOpen, buffer, delivered, handled,
                    forwarded, openedAt >>

\* The call socket closes; its "close" listener, once registered, closes the
\* recognizer socket.
ServerWsClose ==
    /\ input.fn = "server"
    /\ twilioOpen
    /\ twilioOpen' = FALSE
    /\ stt' = IF handlerPc = "listening" THEN "closed" ELSE stt
    /\ UNCHANGED << serverFrame, handlerPc, sttOpen, buffer, delivered, handled,
                    forwarded, openedAt >>

ServerNext ==
    \/ ConnectReturns
    \/ ConnectFails
    \/ ServerSttOpens
    \/ ServerSttCloses
    \/ \E hasPayload \in BOOLEAN : ServerMedia(hasPayload)
    \/ ServerStop
    \/ ServerWsClose

ServerSpec == ServerSpecInit /\ [][ServerNext]_vars

\* C36: no transport event is lost while the recognizer connection is being
\* established: once the handler listens, every media event the call socket
\* has emitted since it connected has been received by the session.
NoEventLostWhileConnecting ==
    (input.fn = "server" /\ handlerPc = "listening") => Len(handled) = delivered

\* The frames with a payload among the first n events the handler received.
PayloadFramesUpTo(n) == Transcribed(SubSeq(handled, 1, n))

\* C37: the frames the handler of server.js receives before the recognizer
\* socket is open are kept in the buffer in arrival order and none is
\* forwarded; when the socket opens they are forwarded in that order, ahead
\* of every later frame, each once.
BufferedFramesFlushedInOrder ==
    input.fn = "server" =>
        /\ ~sttOpen => (forwarded = << >> /\ buffer = handled)
        /\ sttOpen =>
              /\ buffer = << >>
              /\ Len(forwarded) >= Len(PayloadFramesUpTo(openedAt))
              /\ SubSeq(forwarded, 1, Len(PayloadFramesUpTo(openedAt)))
                    = PayloadFramesUpTo(openedAt)
              /\ \A i, j \in 1..Len(forwarded) : i < j => forwarded[i] < forwarded[j]

\* Two frames were buffered and flushed, and a later frame followed them.
TwoFramesFlushedThenOne ==
    /\ input.fn = "server"
    /\ sttOpen
    /\ openedAt = 2
    /\ Len(handled) = 3
    /\ forwarded = << handled[1].frame, handled[2].frame, handled[3].frame >>

\* ---------------------------------------------------------------------------
\* The record-based flow of flow.js: POST /recording, from the webhook to the
\* TwiML it answers with.  The answers of the collaborators are part of the
\* input; the response is the sequence of its TwiML verbs and what is said.
\* ---------------------------------------------------------------------------
\* req.body.Digits: missing, "*", " *" and "5"
DigitsValues == {<< >>, << 42 >>, << 32, 42 >>, << 53 >>}

\* String.prototype.trim for the white space that occurs: the space
TrimUnits(s) == SubSeq(s, LeadingSpaces(s) + 1, Len(s) - TrailingSpaces(s))

\* What sarvamSTT returns: no transcript (also after any error of its own),
\* blanks, or a text, with the normalized language code.
FlowTranscripts == {<< >>, << 32, 32 >>, << 107, 101, 109 >>, << 2709, 2759, 2734 >>, << 2325, 2381, 2351, 2366 >>}
FlowSttLangs == {UNKNOWN, EN_IN, HI_IN}

RecordingCalls ==
    [fn : {"recording"},
     Digits : DigitsValues,
     RecordingUrl : BOOLEAN,
     download : {"ok", "ok_as_mp3", "fails", "no_auth"},
     convert : {"ok", "fails"},
     transcript : FlowTranscripts,
     sttLang : FlowSttLangs,
     generator : {"reply", "fails"},
     tts : {"ok", "fails"}]

RecordingInit ==
    /\ BridgeInit
    /\ LockInit
    /\ ServerInit
    /\ input \in RecordingCalls
    /\ output = NoResult

\* The outer catch: <Say>Sorry, the AI failed. Goodbye.</Say><Hangup/>
FlowError == [kind |-> "flow", pc |-> "sent", verbs |-> << "Say", "Hangup" >>,
              said |-> "failed"]

Awaiting(pc) == [kind |-> "flow", pc |-> pc, verbs |-> << >>, said |-> "none"]

Sent(verbs, said) == [kind |-> "flow", pc |-> "sent", verbs |-> verbs, said |-> said]

\* The handler up to its first await: the digit, then the recording URL.
RecordingPosted ==
    /\ input.fn = "recording"
    /\ output = NoResult
    /\ output' = IF TrimUnits(input.Digits) = << 42 >>
                 THEN Sent(<< "Say", "Hangup" >>, "goodbye")
                 ELSE IF ~input.RecordingUrl THEN FlowError
                 ELSE Awaiting("download")
    /\ UNCHANGED << bridgeVars, lockVars, serverVars, input >>

\* downloadRecording returns the path, or throws: no credentials, or none of
\* the three addresses answered.
RecordingDownloaded ==
    /\ input.fn = "recording"
    /\ output.kind = "flow" /\ output.pc = "download"
    /\ output' = IF input.download \in {"ok", "ok_as_mp3"}
                 THEN Awaiting("convert")
                 ELSE FlowError
    /\ UNCHANGED << bridgeVars, lockVars, serverVars, input >>

\* convertTo16kMono resolves or rejects.
RecordingConverted ==
    /\ input.fn = "recording"
    /\ output.kind = "flow" /\ output.pc = "convert"
    /\ output' = IF input.convert = "ok" THEN Awaiting("stt") ELSE FlowError
    /\ UNCHANGED << bridgeVars, lockVars, serverVars, input >>

\* sarvamSTT returns: without a transcript the caller is asked to speak
\* again; otherwise the language is resolved and callDeepSeek is awaited.
RecordingTranscribed ==
    /\ input.fn = "recording"
    /\ output.kind = "flow" /\ output.pc = "stt"
    /\ output' = IF TrimmedLength(input.transcript) = 0
                 THEN Sent(<< "Say", "Record" >>, "reprompt")
                 ELSE Awaiting("generate")
    /\ UNCHANGED << bridgeVars, lockVars, serverVars, input >>

\* const langCode = resolveFinalLang(sttLang, transcript); franc is not asked
\* for transcripts this short.
FlowLangCode == resolveFinalLang(input.sttLang, input.transcript, "und")

\* The catch around callDeepSeek: the apology in the resolved language.
FlowApology ==
    IF FlowLangCode = GU_IN THEN "apology_gu"
    ELSE IF FlowLangCode = HI_IN THEN "apology_hi"
    ELSE "apology_en"

\* An error of callDeepSeek reaching the outer catch.
GeneratorErrorEscapes == input.generator = "fails"

\* callDeepSeek is awaited inside a try of its own: no error of it leaves
\* that block.
GeneratorErrorFatal == FALSE

\* callDeepSeek returns or throws; sarvamTTSAndSave is awaited with the
\* reply or the apology.
RecordingReplied ==
    /\ input.fn = "recording"
    /\ output.kind = "flow" /\ output.pc = "generate"
    /\ output' = IF GeneratorErrorFatal THEN FlowError
                 ELSE [Awaiting("tts") EXCEPT
                          !.said = IF input.generator = "reply" THEN "reply"
                                   ELSE FlowApology]
    /\ UNCHANGED << bridgeVars, lockVars, serverVars, input >>

\* sarvamTTSAndSave returns or throws; the TwiML is built and sent.
RecordingSynthesized ==
    /\ input.fn = "recording"
    /\ output.kind = "flow" /\ output.pc = "tts"
    /\ output' = IF input.tts = "ok"
                 THEN Sent(<< "Play", "Pause", "Record" >>, output.said)
                 ELSE Sent(<< "Say", "Pause", "Record" >>, output.said)
    /\ UNCHANGED << bridgeVars, lockVars, serverVars, input >>

RecordingNext ==
    \/ RecordingPosted
    \/ RecordingDownloaded
    \/ RecordingConverted
    \/ RecordingTranscribed
    \/ RecordingReplied
    \/ RecordingSynthesized

RecordingSpec == RecordingInit /\ [][RecordingNext]_vars

\* The response has been sent.
Responded == input.fn = "recording" /\ output.kind = "flow" /\ output.pc = "sent"
Verbs == {output.verbs[i] : i \in 1..Len(output.verbs)}
LastVerb == output.verbs[Len(output.verbs)]

\* The request ends the call by the digit, has no recording URL, or its
\* recording cannot be downloaded or converted.
EndsOrUnusable ==
    \/ TrimUnits(input.Digits) = << 42 >>
    \/ ~input.RecordingUrl
    \/ input.download \in {"fails", "no_auth"}
    \/ input.convert = "fails"

\* C31: in the record-based flow a Hangup is returned only for the digit
\* "*", a missing recording URL or a failed download or conversion; an empty
\* transcript is answered with a prompt and a new Record; a generator
\* failure or a synthesizer failure is answered with the apology or the
\* reply, played when synthesis worked and said when it failed, and a new
\* Record.
FailuresKeepTheCallOpen ==
    Responded =>
        /\ "Hangup" \in Verbs => EndsOrUnusable
        /\ ~EndsOrUnusable =>
              /\ LastVerb = "Record"
              /\ TrimmedLength(input.transcript) = 0 =>
                    (output.verbs = << "Say", "Record" >> /\ output.said = "reprompt")
              /\ TrimmedLength(input.transcript) > 0 =>
                    /\ output.verbs[1] = IF input.tts = "ok" THEN "Play" ELSE "Say"
                    /\ output.said = IF input.generator = "fails" THEN FlowApology
                                     ELSE "reply"

\* Generator and synthesizer both failed on a Devanagari transcript: the
\* Hindi apology is said and the caller is recorded again.
ApologySaidAfterBothFailed ==
    /\ Responded
    /\ ~EndsOrUnusable
    /\ input.generator = "fails"
    /\ input.tts = "fails"
    /\ output.verbs = << "Say", "Pause", "Record" >>
    /\ output.said = "apology_hi"

====
